---- MODULE Spec2Model ----
(***************************************************************************)
(* Model of the snapshots-api snapshot service: the filename parser, the   *)
(* resolution (processSnapshots / findLatestAndPreviousSnapshots) and the  *)
(* cached, lock-protected GetSnapshotsWithAuth.                            *)
(*                                                                         *)
(* Strings are TLA+ strings; Len, \o and SubSeq work on them as on         *)
(* sequences of characters.  A time.Time is the record                     *)
(* [date |-> YYYYMMDD, clock |-> HHMMSS] (two numbers, both below 2^31).   *)
(***************************************************************************)
EXTENDS Integers, Sequences, FiniteSets, TLC

\* A nil pointer (no snapshot, no SnapshotInfo, no time).
Nil == [nil |-> TRUE]

(***************************************************************************)
(* models: networks, snapshot types, SnapshotInfo                          *)
(***************************************************************************)
NetworkMainnet == "mainnet"
NetworkTestnet == "testnet"
NetworkDevnet == "devnet"
SnapshotTypeFull == "full"
SnapshotTypeLight == "light"

\* GetAllNetworks: the fixed list of networks, in this order.
GetAllNetworks == <<NetworkMainnet, NetworkTestnet, NetworkDevnet>>

Networks == {GetAllNetworks[i] : i \in 1..Len(GetAllNetworks)}

\* Timestamp.Format("2006-01-02 15:04"): the date and the hour and minute; the
\* seconds are dropped.
FormatTimestamp(t) == <<t.date, t.clock \div 100>>

\* Snapshot.ToSnapshotInfo
ToSnapshotInfo(s) ==
    [Block |-> s.Block, Timestamp |-> FormatTimestamp(s.Timestamp), URL |-> s.URL]

\* &models.NetworkSnapshots{}: no latest, nil previous slices.
EmptyNetworkSnapshots ==
    [Full |-> Nil, Light |-> Nil, PreviousLight |-> <<>>, PreviousFull |-> <<>>]

(***************************************************************************)
(* parser: ParseSnapshot                                                   *)
(***************************************************************************)
Digits == {"0", "1", "2", "3", "4", "5", "6", "7", "8", "9"}

CharAt(s, i) == SubSeq(s, i, i)

DigitVal(c) ==
    CASE c = "0" -> 0 [] c = "1" -> 1 [] c = "2" -> 2 [] c = "3" -> 3
      [] c = "4" -> 4 [] c = "5" -> 5 [] c = "6" -> 6 [] c = "7" -> 7
      [] c = "8" -> 8 [] c = "9" -> 9

AllDigits(s) == \A i \in 1..Len(s) : CharAt(s, i) \in Digits

HasPrefix(s, p) == Len(s) >= Len(p) /\ SubSeq(s, 1, Len(p)) = p

\* TrimSuffix removing the suffix as often as it is there.
RECURSIVE TrimSuffixRepeated(_, _)
TrimSuffixRepeated(s, suffix) ==
    IF Len(suffix) > 0 /\ Len(s) >= Len(suffix)
       /\ SubSeq(s, Len(s) - Len(suffix) + 1, Len(s)) = suffix
    THEN TrimSuffixRepeated(SubSeq(s, 1, Len(s) - Len(suffix)), suffix)
    ELSE s

\* strings.TrimSuffix
TrimSuffix(s, suffix) ==
    IF Len(s) >= Len(suffix) /\ SubSeq(s, Len(s) - Len(suffix) + 1, Len(s)) = suffix
    THEN SubSeq(s, 1, Len(s) - Len(suffix))
    ELSE s

\* The length of the longest prefix of s made of digits (the greedy \d+).
LeadingDigits(s) ==
    CHOOSE k \in 0..Len(s) :
        /\ \A i \in 1..k : CharAt(s, i) \in Digits
        /\ k = Len(s) \/ CharAt(s, k + 1) \notin Digits

\* pattern.FindStringSubmatch for
\*   ^(mainnet|testnet|devnet)-(full|light)-db-block-(\d+)-(\d{8}-\d{6})\.tar\.gz$
\* The whole match and the four groups, or the empty sequence when the name
\* does not match.
FindStringSubmatch(filename) ==
    LET nets == {n \in {"mainnet", "testnet", "devnet"} : HasPrefix(filename, n \o "-")}
    IN  IF nets = {} THEN <<>>
        ELSE
        LET net == CHOOSE n \in nets : TRUE
            r1 == SubSeq(filename, Len(net) + 2, Len(filename))
            kinds == {k \in {"full", "light"} : HasPrefix(r1, k \o "-db-block-")}
        IN  IF kinds = {} THEN <<>>
            ELSE
            LET kind == CHOOSE k \in kinds : TRUE
                r2 == SubSeq(r1, Len(kind) + 11, Len(r1))
                nd == LeadingDigits(r2)
                r3 == SubSeq(r2, nd + 1, Len(r2))
            IN  IF /\ nd >= 1
                   /\ Len(r3) = 23
                   /\ CharAt(r3, 1) = "-"
                   /\ AllDigits(SubSeq(r3, 2, 9))
                   /\ CharAt(r3, 10) = "-"
                   /\ AllDigits(SubSeq(r3, 11, 16))
                   /\ SubSeq(r3, 17, 23) = ".tar.gz"
                THEN <<filename, net, kind, SubSeq(r2, 1, nd), SubSeq(r3, 2, 16)>>
                ELSE <<>>

\* The decimal value of a string of digits.
RECURSIVE Atoi(_)
Atoi(s) ==
    IF Len(s) = 0 THEN 0
    ELSE Atoi(SubSeq(s, 1, Len(s) - 1)) * 10 + DigitVal(CharAt(s, Len(s)))

RECURSIVE StripZeros(_)
StripZeros(s) ==
    IF Len(s) > 1 /\ CharAt(s, 1) = "0" THEN StripZeros(SubSeq(s, 2, Len(s))) ELSE s

\* a > b for two digit strings of the same length.
RECURSIVE DigitsGreater(_, _)
DigitsGreater(a, b) ==
    IF Len(a) = 0 THEN FALSE
    ELSE IF CharAt(a, 1) # CharAt(b, 1)
         THEN DigitVal(CharAt(a, 1)) > DigitVal(CharAt(b, 1))
         ELSE DigitsGreater(SubSeq(a, 2, Len(a)), SubSeq(b, 2, Len(b)))

MaxInt64Digits == "9223372036854775807"

\* strconv.ParseInt(s, 10, 64) on a non-empty string of digits fails exactly
\* when the value is above 2^63-1.
ParseIntInRange(s) ==
    LET d == StripZeros(s)
    IN  \/ Len(d) < Len(MaxInt64Digits)
        \/ Len(d) = Len(MaxInt64Digits) /\ ~DigitsGreater(d, MaxInt64Digits)

IsLeap(y) == (y % 4 = 0 /\ y % 100 # 0) \/ y % 400 = 0

DaysIn(m, y) ==
    IF m = 2 THEN (IF IsLeap(y) THEN 29 ELSE 28)
    ELSE IF m \in {4, 6, 9, 11} THEN 30 ELSE 31

\* time.Parse("20060102-150405", s) on a string of the form \d{8}-\d{6}:
\* the time, or Nil when a field is out of range.
TimeParse(s) ==
    LET y == Atoi(SubSeq(s, 1, 4))
        mo == Atoi(SubSeq(s, 5, 6))
        d == Atoi(SubSeq(s, 7, 8))
        h == Atoi(SubSeq(s, 10, 11))
        mi == Atoi(SubSeq(s, 12, 13))
        se == Atoi(SubSeq(s, 14, 15))
    IN  IF /\ mo \in 1..12
           /\ d >= 1 /\ d <= DaysIn(mo, y)
           /\ h < 24 /\ mi < 60 /\ se < 60
        THEN [date |-> Atoi(SubSeq(s, 1, 8)), clock |-> Atoi(SubSeq(s, 10, 15))]
        ELSE Nil

\* SnapshotParser.ParseSnapshot: the snapshot, or Nil for an error.
ParseSnapshot(filename, baseURL) ==
    LET matches == FindStringSubmatch(filename)
    IN  IF Len(matches) # 5 THEN Nil
        ELSE IF ~ParseIntInRange(matches[4]) THEN Nil
        ELSE IF TimeParse(matches[5]) = Nil THEN Nil
        ELSE [Network |-> matches[2],
              Type |-> matches[3],
              Block |-> Atoi(matches[4]),
              Timestamp |-> TimeParse(matches[5]),
              URL |-> TrimSuffix(baseURL, "/o") \o "/" \o filename,
              Filename |-> filename]

\* IsValidNetwork taking the upper-case spellings as well.
IsValidNetworkAnyCase(network) ==
    network \in {NetworkMainnet, NetworkTestnet, NetworkDevnet,
                 "MAINNET", "TESTNET", "DEVNET"}

\* SnapshotParser.IsValidNetwork
IsValidNetwork(network) ==
    network \in {NetworkMainnet, NetworkTestnet, NetworkDevnet}

\* SnapshotService.IsValidNetwork: return s.parser.IsValidNetwork(network)
ServiceIsValidNetwork(network) == IsValidNetwork(network)

(***************************************************************************)
(* config and auth: API keys and the Authorization header                  *)
(***************************************************************************)
\* Config.IsValidAPIKey
IsValidAPIKeyIn(keys, apiKey) ==
    IF Len(keys) = 0 THEN FALSE
    ELSE \E i \in 1..Len(keys) : keys[i] = apiKey /\ Len(keys[i]) # 0

UpperCase == "ABCDEFGHIJKLMNOPQRSTUVWXYZ"

LowerCase == "abcdefghijklmnopqrstuvwxyz"

\* strings.ToLower on ASCII text
RECURSIVE ToLower(_)
ToLower(s) ==
    IF Len(s) = 0 THEN s
    ELSE LET ch == CharAt(s, 1)
             at == {i \in 1..Len(UpperCase) : CharAt(UpperCase, i) = ch}
         IN  (IF at = {} THEN ch ELSE CharAt(LowerCase, CHOOSE i \in at : TRUE))
                 \o ToLower(SubSeq(s, 2, Len(s)))

\* strings.SplitN(s, " ", 2): s cut at its first space, or s alone.
SplitN2(s) ==
    LET spaces == {i \in 1..Len(s) : CharAt(s, i) = " "}
    IN  IF spaces = {} THEN <<s>>
        ELSE LET i == CHOOSE j \in spaces : \A k \in spaces : j <= k
             IN  <<SubSeq(s, 1, i - 1), SubSeq(s, i + 1, Len(s))>>

\* ExtractAPIKey taking the scheme as it is written.
ExtractAPIKeyExactScheme(authHeader) ==
    IF Len(authHeader) = 0 THEN [apiKey |-> "", found |-> FALSE]
    ELSE LET parts == SplitN2(authHeader)
         IN  IF Len(parts) # 2 THEN [apiKey |-> "", found |-> FALSE]
             ELSE IF parts[1] # "Bearer" THEN [apiKey |-> "", found |-> FALSE]
             ELSE [apiKey |-> parts[2], found |-> TRUE]

\* Middleware.ExtractAPIKey on the value of the Authorization header ("" when
\* the request has none): the key and whether one was found.
ExtractAPIKey(authHeader) ==
    IF Len(authHeader) = 0 THEN [apiKey |-> "", found |-> FALSE]
    ELSE LET parts == SplitN2(authHeader)
         IN  IF Len(parts) # 2 THEN [apiKey |-> "", found |-> FALSE]
             ELSE IF ToLower(parts[1]) # "bearer" THEN [apiKey |-> "", found |-> FALSE]
             ELSE [apiKey |-> parts[2], found |-> TRUE]

\* Middleware.IsAuthenticated, with the configured keys
IsAuthenticatedWith(keys, authHeader) ==
    IF ~ExtractAPIKey(authHeader).found THEN FALSE
    ELSE IsValidAPIKeyIn(keys, ExtractAPIKey(authHeader).apiKey)

(***************************************************************************)
(* service: the resolution                                                 *)
(***************************************************************************)
\* Timestamp.After
After(t, u) == t.date > u.date \/ (t.date = u.date /\ t.clock > u.clock)

\* Less with the tie between equal blocks decided the wrong way round.
LessOldestFirst(a, b) ==
    IF a.Block # b.Block THEN a.Block > b.Block
    ELSE After(b.Timestamp, a.Timestamp)

\* The less function handed to sort.Slice: block descending, then timestamp
\* descending.
Less(a, b) ==
    IF a.Block # b.Block THEN a.Block > b.Block
    ELSE After(a.Timestamp, b.Timestamp)

InsertAt(s, i, x) == SubSeq(s, 1, i - 1) \o <<x>> \o SubSeq(s, i, Len(s))

\* The places where x can go into the sorted slice t and leave it sorted: x is
\* not less than the element before it and the element after it is not less
\* than x.
SortedPlaces(t, x) ==
    {k \in 1..(Len(t) + 1) :
        /\ k = 1 \/ ~Less(x, t[k - 1])
        /\ k = Len(t) + 1 \/ ~Less(t[k], x)}

\* sort.Slice(snapshots, less): the slice is sorted in place.  sort.Slice is
\* not stable, so elements that compare equal may end in any order: the set
\* of all sorted orders of the slice, which are the orders the call may leave
\* it in.
RECURSIVE SortSlice(_)
SortSlice(s) ==
    IF Len(s) = 0 THEN {<<>>}
    ELSE UNION {
           {InsertAt(t, k, s[Len(s)]) : k \in SortedPlaces(t, s[Len(s)])} :
           t \in SortSlice(SubSeq(s, 1, Len(s) - 1))}

maxPrevious == 3

\* findLatestAndPreviousSnapshots without the cap on previous.
findLatestAndPreviousUncapped(snapshots) ==
    IF Len(snapshots) = 0 THEN {[latest |-> Nil, previous |-> <<>>]}
    ELSE {[latest |-> sorted[1],
           previous |-> IF Len(sorted) > 1
                        THEN SubSeq(sorted, 2, Len(sorted)) ELSE <<>>] :
          sorted \in SortSlice(snapshots)}

\* findLatestAndPreviousSnapshots with previous sliced from index 0.
findLatestAndPreviousFromZero(snapshots) ==
    IF Len(snapshots) = 0 THEN {[latest |-> Nil, previous |-> <<>>]}
    ELSE {LET endIndex == IF Len(sorted) > maxPrevious
                          THEN maxPrevious ELSE Len(sorted)
          IN  [latest |-> sorted[1],
               previous |-> IF Len(sorted) > 1
                            THEN SubSeq(sorted, 1, endIndex) ELSE <<>>] :
          sorted \in SortSlice(snapshots)}

\* findLatestAndPreviousSnapshots: the outcomes [latest, previous] the call
\* may return (one per order sort.Slice may produce).
findLatestAndPreviousSnapshots(snapshots) ==
    IF Len(snapshots) = 0 THEN {[latest |-> Nil, previous |-> <<>>]}
    ELSE {LET endIndex == IF Len(sorted) > maxPrevious + 1
                          THEN maxPrevious + 1 ELSE Len(sorted)
          IN  [latest |-> sorted[1],
               previous |-> IF Len(sorted) > 1
                            THEN SubSeq(sorted, 2, endIndex) ELSE <<>>] :
          sorted \in SortSlice(snapshots)}

\* findLatestSnapshot: the outcomes the call may return.
findLatestSnapshot(snapshots) ==
    IF Len(snapshots) = 0 THEN {Nil}
    ELSE {sorted[1] : sorted \in SortSlice(snapshots)}

\* The slice networkSnapshots[network][snapshotType] that processSnapshots
\* builds by appending in input order.
GroupOf(snapshots, network, snapshotType) ==
    SelectSeq(snapshots, LAMBDA s : s.Network = network /\ s.Type = snapshotType)

\* processSnapshots with an entry for every network, with or without snapshots.
processSnapshotsAllNetworks(snapshots) ==
    LET outcomes(n, t) ==
            IF GroupOf(snapshots, n, t) = <<>>
            THEN {[latest |-> Nil, previous |-> <<>>]}
            ELSE findLatestAndPreviousSnapshots(GroupOf(snapshots, n, t))
        info(latest) == IF latest = Nil THEN Nil ELSE ToSnapshotInfo(latest)
        infos(previous) == [i \in 1..Len(previous) |-> ToSnapshotInfo(previous[i])]
        networkResult(n) ==
            {[Full |-> info(f.latest),
              Light |-> info(l.latest),
              PreviousLight |-> infos(l.previous),
              PreviousFull |-> infos(f.previous)] :
             f \in outcomes(n, SnapshotTypeFull), l \in outcomes(n, SnapshotTypeLight)}
    IN  {result \in [Networks -> UNION {networkResult(n) : n \in Networks}] :
           \A n \in Networks : result[n] \in networkResult(n)}

\* processSnapshots: the maps network -> NetworkSnapshots the call may return.
processSnapshots(snapshots) ==
    LET present == {snapshots[i].Network : i \in 1..Len(snapshots)}
        outcomes(n, t) ==
            IF GroupOf(snapshots, n, t) = <<>>
            THEN {[latest |-> Nil, previous |-> <<>>]}
            ELSE findLatestAndPreviousSnapshots(GroupOf(snapshots, n, t))
        info(latest) == IF latest = Nil THEN Nil ELSE ToSnapshotInfo(latest)
        infos(previous) == [i \in 1..Len(previous) |-> ToSnapshotInfo(previous[i])]
        networkResult(n) ==
            {[Full |-> info(f.latest),
              Light |-> info(l.latest),
              PreviousLight |-> infos(l.previous),
              PreviousFull |-> infos(f.previous)] :
             f \in outcomes(n, SnapshotTypeFull), l \in outcomes(n, SnapshotTypeLight)}
    IN  {result \in [present -> UNION {networkResult(n) : n \in present}] :
           \A n \in present : result[n] \in networkResult(n)}

(***************************************************************************)
(* service: fetchSnapshots                                                 *)
(***************************************************************************)
bucketName == "taraxa-snapshot"

\* fetchSnapshots leaving the loop at the first name the parser rejects.
fetchSnapshotsStopsAtInvalid(items) ==
    LET baseURL == "https://storage.googleapis.com/" \o bucketName
        parsed == [i \in 1..Len(items) |-> ParseSnapshot(items[i], baseURL)]
        bad == {i \in 1..Len(items) : parsed[i] = Nil}
        stop == IF bad = {} THEN Len(items) + 1
                ELSE CHOOSE i \in bad : \A j \in bad : i <= j
    IN  SubSeq(parsed, 1, stop - 1)

\* fetchSnapshots on a decoded listing: every item name is parsed, the names
\* the parser rejects are skipped, the others are kept in listing order.
fetchSnapshots(items) ==
    LET baseURL == "https://storage.googleapis.com/" \o bucketName
        parsed == [i \in 1..Len(items) |-> ParseSnapshot(items[i], baseURL)]
    IN  SelectSeq(parsed, LAMBDA s : s # Nil)

\* The error GetSnapshotsWithAuth returns when fetchSnapshots fails (http.Get
\* returns an error, the status is not 200, or the body does not decode).
FetchError == "failed to fetch snapshots"

(***************************************************************************)
(* Bounds and inputs of the model                                          *)
(***************************************************************************)
\* The callers (goroutines serving requests) that may run concurrently.
Callers == {"c1", "c2"}

\* Calls of GetSnapshotsWithAuth started in one behaviour.
MaxCalls == 2

\* Times the cache is let to expire in one behaviour.
MaxExpiries == 1

\* Descriptors handed to one processSnapshots call.
MaxInput == 5

ListingA ==
    << "mainnet-full-db-block-200-20250706-110000.tar.gz",
       "bogus.txt",
       "mainnet-full-db-block-100-20250706-100000.tar.gz" >>

ListingB ==
    << "mainnet-light-db-block-150-20250706-100000.tar.gz",
       "mainnet-light-db-block-140-20250705-100000.tar.gz",
       "mainnet-full-db-block-300-20250707-110000.tar.gz",
       "testnet-light-db-block-50-20250706-052226.tar.gz",
       "mainnet-full-db-block-123-20250706-999999.tar.gz" >>

\* The bucket contents of the model.
Listings == {ListingA, ListingB}

\* The networks the callers of the model ask for: mainnet has objects in both
\* listings, testnet in one of them only.  (devnet, which has objects in none,
\* is served as testnet is while the bucket holds ListingA.)
RequestNetworks == {NetworkMainnet, NetworkTestnet}

\* The object names the resolution inputs are parsed from: equal blocks with
\* different timestamps, timestamps that differ in the seconds only, two names
\* of one block and timestamp (a leading zero), a higher block with an older
\* timestamp, a lower block with a newer one, another kind and another network.
ResolveNames ==
    { "mainnet-full-db-block-200-20250706-110000.tar.gz",
      "mainnet-full-db-block-0200-20250706-110000.tar.gz",
      "mainnet-full-db-block-200-20250706-110030.tar.gz",
      "mainnet-full-db-block-100-20250707-100000.tar.gz",
      "mainnet-full-db-block-300-20250704-090000.tar.gz",
      "testnet-light-db-block-70-20250706-052226.tar.gz" }

ResolveInputs ==
    {ParseSnapshot(n, "https://storage.googleapis.com/" \o bucketName) : n \in ResolveNames}

(***************************************************************************)
(* State                                                                   *)
(***************************************************************************)
VARIABLES
    cache,      \* s.cache: network -> NetworkSnapshots, for the networks present
    cacheTime,  \* s.cacheTime, in minutes; ZeroTime is the zero time.Time
    mutex,      \* s.mutex: [readers |-> set of callers, writer |-> caller or NoCaller]
    pc,         \* where each caller is in GetSnapshotsWithAuth
    local,      \* each caller's arguments, local variables and return values,
                \* and history: the cache entry the call was served from
                \* (entry, src), the fetches it issued (fetches), whether the
                \* bucket or the clock moved since it started (changed)
    now,        \* the clock, in minutes
    bucket,     \* the item names the bucket listing returns now
    calls,      \* number of calls started
    stored,     \* history: the snapshots the cache was resolved from
    origin,     \* history: which call wrote s.cache and which wrote s.cacheTime
    input,      \* resolution: the descriptors handed to processSnapshots
    output,     \* resolution: whether processSnapshots ran, and what it returned
    parseIn,    \* parser: the arguments of ParseSnapshot, [filename, baseURL],
                \* Nil before they are chosen
    parseOut,   \* parser: whether ParseSnapshot ran, and the snapshot or Nil
    apiKeys,    \* config: Config.APIKeys
    request,    \* handler: the request each handler goroutine is serving
    response,   \* handler: the response it wrote, and history: the cache
                \* entry the service call was served from (entry)
    handler,    \* handler: where each handler goroutine is in getSnapshots
    validIn,    \* IsValidNetwork: the argument, [network], Nil before it is chosen
    validOut,   \* IsValidNetwork: which of the parser's and the service's
                \* method ran (run), and what each returned
    authReq,    \* middleware: the request, [authorization], Nil before it arrives
    authRes,    \* middleware: whether IsAuthenticated ran and what it returned,
                \* whether the handler wrapped by RequireAuth served the
                \* request, the response, and the calls of the wrapped handler
    reads,      \* history: the calls whose fetch has read the bucket listing,
                \* by their numbers, in the order of the readings
    pair        \* two services side by side: their caches and last return
                \* values (st), the clock, the bucket, the full objects that
                \* the bucket of the second service lacks (dropped), the
                \* number of calls and the arguments of the last one

serviceVars == <<cache, cacheTime, mutex, pc, local, now, bucket, calls,
                 stored, origin>>
resolveVars == <<input, output>>
parseVars == <<parseIn, parseOut>>
httpVars == <<apiKeys, request, response, handler>>
networkVars == <<validIn, validOut>>
authVars == <<authReq, authRes>>
pairVars == <<pair>>
orderVars == <<reads>>
vars == <<cache, cacheTime, mutex, pc, local, now, bucket, calls,
          stored, origin, input, output, parseIn, parseOut,
          apiKeys, request, response, handler, validIn, validOut,
          authReq, authRes, pair, reads>>

NoCaller == "none"
ZeroTime == 0

\* cacheTTL: 5 * time.Minute
cacheTTL == 5

\* time.Since(s.cacheTime) < s.cacheTTL
CacheValid(time, clock) == clock - time < cacheTTL

NoLocal ==
    [network |-> "", authenticated |-> FALSE, id |-> 0,
     cached |-> Nil, exists |-> FALSE, cacheValid |-> FALSE,
     snapshots |-> <<>>, result |-> Nil, err |-> "",
     entry |-> Nil, src |-> <<>>, fetches |-> 0, changed |-> FALSE]

\* NewSnapshotService: an empty cache, the zero cacheTime, an unlocked mutex.
\* The clock starts late enough for the zero cacheTime to be older than the TTL.
ServiceInit ==
    /\ cache = <<>>
    /\ cacheTime = ZeroTime
    /\ mutex = [readers |-> {}, writer |-> NoCaller]
    /\ pc = [c \in Callers |-> "idle"]
    /\ local = [c \in Callers |-> NoLocal]
    /\ now = ZeroTime + cacheTTL
    /\ calls = 0
    /\ stored = <<>>
    /\ origin = [cache |-> 0, cacheTime |-> 0, authenticated |-> TRUE]

ResolveInit ==
    /\ input = <<>>
    /\ output = [run |-> FALSE, result |-> <<>>]

ParseInit ==
    /\ parseIn = Nil
    /\ parseOut = [run |-> FALSE, snapshot |-> Nil]

NoRequest == [method |-> "", network |-> "", authorization |-> ""]

NoResponse ==
    [status |-> 0, contentType |-> "", cacheControl |-> "", body |-> "", entry |-> Nil]

NetworkInit ==
    /\ validIn = Nil
    /\ validOut = [run |-> {}, parser |-> FALSE, service |-> FALSE]

\* A service after NewSnapshotService that has returned nothing yet.
NewService == [cache |-> <<>>, cacheTime |-> ZeroTime, result |-> Nil, err |-> ""]

\* Two new services, no call made.
PairInit ==
    pair = [st |-> <<NewService, NewService>>, now |-> ZeroTime + cacheTTL,
            bucket |-> <<>>, dropped |-> {}, calls |-> 0,
            network |-> "", authenticated |-> FALSE]

NoAuthResult ==
    [checked |-> FALSE, authenticated |-> FALSE, served |-> FALSE,
     status |-> 0, contentType |-> "", wwwAuthenticate |-> "", body |-> "",
     nextCalls |-> 0]

MiddlewareInit ==
    /\ authReq = Nil
    /\ authRes = NoAuthResult

\* No request has arrived.
HandlerInit ==
    /\ request = [c \in Callers |-> NoRequest]
    /\ response = [c \in Callers |-> NoResponse]
    /\ handler = [c \in Callers |-> "idle"]

(***************************************************************************)
(* service: GetSnapshotsWithAuth, one action per step of a caller          *)
(***************************************************************************)
\* FilteredResult with PreviousLight forgotten.
FilteredResultNoPreviousLight(ns) ==
    [Full |-> Nil, Light |-> ns.Light, PreviousLight |-> <<>>, PreviousFull |-> <<>>]

\* The NetworkSnapshots built for an unauthenticated caller: the light fields
\* of the cached value, Full and PreviousFull left nil.
FilteredResult(ns) ==
    [Full |-> Nil, Light |-> ns.Light,
     PreviousLight |-> ns.PreviousLight, PreviousFull |-> <<>>]

\* What a call returns from the NetworkSnapshots it found.
ResultFor(ns, authenticated) ==
    IF authenticated THEN ns ELSE FilteredResult(ns)

\* A read lock that does not wait for the writer.
CanRLockDuringWrite == TRUE

\* s.mutex.RLock() goes through when no writer holds the mutex.
CanRLock == mutex.writer = NoCaller

\* s.mutex.Lock() goes through when nobody holds the mutex.
CanLock == mutex.writer = NoCaller /\ mutex.readers = {}

\* NewCache storing what the caller is allowed to see.
NewCacheRedacted(snapshots, authenticated) ==
    IF authenticated THEN processSnapshots(snapshots)
    ELSE {[n \in DOMAIN r |-> FilteredResult(r[n])] : r \in processSnapshots(snapshots)}

\* What the refresh of a call assigns to s.cache: an outcome of
\* processSnapshots on the fetched snapshots, whoever the caller is.
NewCache(snapshots, authenticated) == processSnapshots(snapshots)

\* A request handler calls GetSnapshotsWithAuth(network, authenticated).
Call(c, network, authenticated) ==
    /\ pc[c] = "idle"
    /\ calls < MaxCalls
    /\ calls' = calls + 1
    /\ local' = [local EXCEPT ![c] = [NoLocal EXCEPT !.network = network,
                                                     !.authenticated = authenticated,
                                                     !.id = calls + 1]]
    /\ pc' = [pc EXCEPT ![c] = "rlock"]
    /\ UNCHANGED <<cache, cacheTime, mutex, now, bucket, stored, origin>>

\* GetSnapshots passing false for authenticated.
GetSnapshotsUnauthenticated(c, network) == Call(c, network, FALSE)

\* GetSnapshots(network): return s.GetSnapshotsWithAuth(network, true)
GetSnapshots(c, network) == Call(c, network, TRUE)

\* s.mutex.RLock()
RLock(c) ==
    /\ pc[c] = "rlock"
    /\ CanRLock
    /\ mutex' = [mutex EXCEPT !.readers = @ \cup {c}]
    /\ pc' = [pc EXCEPT ![c] = "read"]
    /\ UNCHANGED <<cache, cacheTime, local, now, bucket, calls, stored, origin>>

\* ReadCache without the s.mutex.RUnlock() after it.
ReadCacheKeepsRLock(c) ==
    LET exists == local[c].network \in DOMAIN cache
        cached == IF exists THEN cache[local[c].network] ELSE Nil
    IN  /\ pc[c] = "read"
        /\ local' = [local EXCEPT ![c].cached = cached,
                                  ![c].exists = exists,
                                  ![c].cacheValid = CacheValid(cacheTime, now),
                                  ![c].entry = cached,
                                  ![c].src = stored]
        /\ pc' = [pc EXCEPT ![c] = "check"]
        /\ UNCHANGED <<cache, cacheTime, mutex, now, bucket, calls, stored, origin>>

\* cached, exists := s.cache[network]; cacheValid := ...; s.mutex.RUnlock()
ReadCache(c) ==
    LET exists == local[c].network \in DOMAIN cache
        cached == IF exists THEN cache[local[c].network] ELSE Nil
    IN  /\ pc[c] = "read"
        /\ local' = [local EXCEPT ![c].cached = cached,
                                  ![c].exists = exists,
                                  ![c].cacheValid = CacheValid(cacheTime, now),
                                  ![c].entry = cached,
                                  ![c].src = stored]
        /\ mutex' = [mutex EXCEPT !.readers = @ \ {c}]
        /\ pc' = [pc EXCEPT ![c] = "check"]
        /\ UNCHANGED <<cache, cacheTime, now, bucket, calls, stored, origin>>

\* if exists && cacheValid: the call returns the cached value, filtered for an
\* unauthenticated caller.
ServeCached(c) ==
    /\ pc[c] = "check"
    /\ local[c].exists /\ local[c].cacheValid
    /\ local' = [local EXCEPT ![c].result =
                     ResultFor(local[c].cached, local[c].authenticated)]
    /\ pc' = [pc EXCEPT ![c] = "done"]
    /\ UNCHANGED <<cache, cacheTime, mutex, now, bucket, calls, stored, origin>>

\* Otherwise s.fetchSnapshots() is called: the listing request goes out.
FetchStart(c) ==
    /\ pc[c] = "check"
    /\ ~(local[c].exists /\ local[c].cacheValid)
    /\ pc' = [pc EXCEPT ![c] = "fetching"]
    /\ local' = [local EXCEPT ![c].fetches = @ + 1]
    /\ UNCHANGED <<cache, cacheTime, mutex, now, bucket, calls, stored, origin>>

\* FetchOK stamping the cache as soon as the listing is in.
FetchOKStampsCache(c) ==
    /\ pc[c] = "fetching"
    /\ local' = [local EXCEPT ![c].snapshots = fetchSnapshots(bucket)]
    /\ pc' = [pc EXCEPT ![c] = "lock"]
    /\ cacheTime' = now
    /\ UNCHANGED <<cache, mutex, now, bucket, calls, stored, origin>>

\* The listing request succeeds: fetchSnapshots returns the parsed snapshots
\* of the listing the bucket holds when it answers.
FetchOK(c) ==
    /\ pc[c] = "fetching"
    /\ local' = [local EXCEPT ![c].snapshots = fetchSnapshots(bucket)]
    /\ pc' = [pc EXCEPT ![c] = "lock"]
    /\ UNCHANGED <<cache, cacheTime, mutex, now, bucket, calls, stored, origin>>

\* FetchFail dropping the cache on its way out.
FetchFailDropsCache(c) ==
    /\ pc[c] = "fetching"
    /\ local' = [local EXCEPT ![c].err = FetchError, ![c].result = Nil]
    /\ pc' = [pc EXCEPT ![c] = "done"]
    /\ cache' = <<>>
    /\ cacheTime' = ZeroTime
    /\ UNCHANGED <<mutex, now, bucket, calls, stored, origin>>

\* FetchFail going back to fetch again.
FetchFailRetries(c) ==
    /\ pc[c] = "fetching"
    /\ pc' = [pc EXCEPT ![c] = "check"]
    /\ UNCHANGED <<cache, cacheTime, mutex, local, now, bucket, calls, stored, origin>>

\* FetchFail answering with an empty set instead of the error.
FetchFailServesEmpty(c) ==
    /\ pc[c] = "fetching"
    /\ local' = [local EXCEPT ![c].result = EmptyNetworkSnapshots]
    /\ pc' = [pc EXCEPT ![c] = "done"]
    /\ UNCHANGED <<cache, cacheTime, mutex, now, bucket, calls, stored, origin>>

\* FetchFail answering with the entry the call found in the stale cache.
FetchFailServesStale(c) ==
    /\ pc[c] = "fetching"
    /\ local' = [local EXCEPT
                    ![c].err = IF local[c].exists THEN "" ELSE FetchError,
                    ![c].result = IF local[c].exists
                                  THEN ResultFor(local[c].cached, local[c].authenticated)
                                  ELSE Nil]
    /\ pc' = [pc EXCEPT ![c] = "done"]
    /\ UNCHANGED <<cache, cacheTime, mutex, now, bucket, calls, stored, origin>>

\* The listing request fails: the call returns nil and the wrapped error.
FetchFail(c) ==
    /\ pc[c] = "fetching"
    /\ local' = [local EXCEPT ![c].err = FetchError, ![c].result = Nil]
    /\ pc' = [pc EXCEPT ![c] = "done"]
    /\ UNCHANGED <<cache, cacheTime, mutex, now, bucket, calls, stored, origin>>

\* s.mutex.Lock()
Lock(c) ==
    /\ pc[c] = "lock"
    /\ CanLock
    /\ mutex' = [mutex EXCEPT !.writer = c]
    /\ pc' = [pc EXCEPT ![c] = "update"]
    /\ UNCHANGED <<cache, cacheTime, local, now, bucket, calls, stored, origin>>

\* s.cache = s.processSnapshots(snapshots)
UpdateCache(c) ==
    /\ pc[c] = "update"
    /\ cache' \in NewCache(local[c].snapshots, local[c].authenticated)
    /\ stored' = local[c].snapshots
    /\ origin' = [origin EXCEPT !.cache = local[c].id,
                                !.authenticated = local[c].authenticated]
    /\ pc' = [pc EXCEPT ![c] = "stamp"]
    /\ UNCHANGED <<cacheTime, mutex, local, now, bucket, calls>>

\* s.cacheTime = time.Now(); the result is read from the new cache (an empty
\* NetworkSnapshots when the network has no entry), filtered for an
\* unauthenticated caller; the deferred s.mutex.Unlock() runs on return.
StampAndServe(c) ==
    LET exists == local[c].network \in DOMAIN cache
        result == IF exists THEN cache[local[c].network] ELSE EmptyNetworkSnapshots
    IN  /\ pc[c] = "stamp"
        /\ cacheTime' = now
        /\ origin' = [origin EXCEPT !.cacheTime = local[c].id]
        /\ local' = [local EXCEPT ![c].result =
                         IF exists THEN ResultFor(result, local[c].authenticated)
                         ELSE EmptyNetworkSnapshots,
                                  ![c].entry = result,
                                  ![c].src = stored]
        /\ mutex' = [mutex EXCEPT !.writer = NoCaller]
        /\ pc' = [pc EXCEPT ![c] = "done"]
        /\ UNCHANGED <<cache, now, bucket, calls, stored>>

\* The caller has its return values and goes on to its next request.
Return(c) ==
    /\ pc[c] = "done"
    /\ pc' = [pc EXCEPT ![c] = "idle"]
    /\ local' = [local EXCEPT ![c] = NoLocal]
    /\ UNCHANGED <<cache, cacheTime, mutex, now, bucket, calls, stored, origin>>

\* History: the calls that have started and not returned are marked as having
\* seen the bucket or the clock move.
Disturbed ==
    [c \in Callers |->
        IF pc[c] = "idle" THEN local[c] ELSE [local[c] EXCEPT !.changed = TRUE]]

\* Time passes until the TTL of the cache has elapsed.  The clock is read only
\* to compare the age of the cache with the TTL and to stamp the cache, so the
\* model lets it jump from one expiry to the next: while the cache is already
\* expired no caller can tell a later time from the present one.
Tick ==
    /\ now < ZeroTime + cacheTTL + MaxExpiries * cacheTTL
    /\ CacheValid(cacheTime, now)
    /\ now' = cacheTime + cacheTTL
    /\ local' = Disturbed
    /\ UNCHANGED <<cache, cacheTime, mutex, pc, bucket, calls, stored, origin>>

\* Objects are added to or removed from the bucket.
BucketChange ==
    /\ \E l \in Listings \ {bucket} : bucket' = l
    /\ local' = Disturbed
    /\ UNCHANGED <<cache, cacheTime, mutex, pc, now, calls, stored, origin>>

Init ==
    /\ ServiceInit
    /\ bucket \in Listings
    /\ ResolveInit
    /\ ParseInit
    /\ HandlerInit
    /\ NetworkInit
    /\ MiddlewareInit
    /\ PairInit
    /\ reads = <<>>
    /\ apiKeys = <<>>

(***************************************************************************)
(* The resolution on its own: a caller (a test, or a refresh) builds a      *)
(* slice of snapshots and hands it to processSnapshots.                    *)
(***************************************************************************)
\* One more snapshot is appended to the slice.
AppendInput(d) ==
    /\ ~output.run
    /\ Len(input) < MaxInput
    /\ input' = Append(input, d)
    /\ UNCHANGED output

\* processSnapshots(input) is called.
Resolve ==
    /\ ~output.run
    /\ \E result \in processSnapshots(input) :
          output' = [run |-> TRUE, result |-> result]
    /\ UNCHANGED input

ResolveNext ==
    \/ \E d \in ResolveInputs : AppendInput(d) /\ UNCHANGED <<serviceVars, parseVars, httpVars, networkVars, authVars, pairVars, orderVars>>
    \/ Resolve /\ UNCHANGED <<serviceVars, parseVars, httpVars, networkVars, authVars, pairVars, orderVars>>

InitResolve ==
    /\ ServiceInit
    /\ bucket = ListingA
    /\ ResolveInit
    /\ ParseInit
    /\ HandlerInit
    /\ NetworkInit
    /\ MiddlewareInit
    /\ PairInit
    /\ reads = <<>>
    /\ apiKeys = <<>>

SpecResolve == InitResolve /\ [][ResolveNext]_vars

(***************************************************************************)
(* The parser on its own: ParseSnapshot is called on an object name and a   *)
(* base URL.                                                               *)
(***************************************************************************)
\* The object names of the model: every combination of a network, a kind, a
\* block, a timestamp and an extension, right and wrong ones, and names with
\* a missing segment, an extra one, or of another shape.
NameNetworks == {"mainnet", "testnet", "devnet", "Mainnet"}

NameKinds == {"full", "light", "FULL"}

NameBlocks == {"200", "007", "abc", "12x", "", "9223372036854775808"}

NameStamps ==
    {"20250706-062734", "20240229-235959", "20250229-000000", "20250431-120000",
     "20251306-000000", "20250706-240000", "2025076-062734"}

NameExtensions == {".tar.gz", "xtar.gz"}

ParseNames ==
    {n \o "-" \o k \o "-db-block-" \o b \o "-" \o t \o e :
        n \in NameNetworks, k \in NameKinds, b \in NameBlocks,
        t \in NameStamps, e \in NameExtensions}
    \cup {"", "bogus.txt", "invalid-filename.tar.gz",
          "invalid-full-db-block-123-20250706-042052.tar.gz",
          "mainnet-invalid-db-block-123-20250706-042052.tar.gz",
          "mainnet-full-db-block-123-20250700-042052.tar.gz",
          "mainnet-full-db-block-123-20250706-006000.tar.gz",
          "mainnet-full-db-block-123-20250706-999999.tar.gz",
          "mainnet-full-db-block-123-20250706_062734.tar.gz",
          "xmainnet-full-db-block-123-20250706-062734.tar.gz",
          "mainnet-full-db-block-123-20250706-062734.tar.gz.bak",
          "mainnet-full-db-block-123-20250706-062734.tgz",
          "mainnet-full-db-block-200-20250706.tar.gz",
          "mainnet-full-db-block-200-20250706-062734-1.tar.gz",
          "mainnet-full-db-200-20250706-062734.tar.gz",
          "mainnet-full-db-block-200-20250706-062734.tar.gz.tar.gz",
          "testnet-light-db-block-18446744073709551615-20250706-062734.tar.gz",
          "testnet-light-db-block-18446744073709551616-20250706-062734.tar.gz",
          "devnet-full-db-block-0002147483647-20250706-062734.tar.gz"}

\* The base URLs of the model: the one fetchSnapshots passes, the listing
\* endpoint of the bucket, one that ends in the suffix twice, and none.
BaseURLs ==
    {"https://storage.googleapis.com/" \o bucketName,
     "https://storage.googleapis.com/storage/v1/b/" \o bucketName \o "/o",
     "https://example.com/o/o",
     ""}

\* A caller picks the arguments.
ChooseName(filename, baseURL) ==
    /\ parseIn = Nil
    /\ parseIn' = [filename |-> filename, baseURL |-> baseURL]
    /\ UNCHANGED parseOut

\* ParseSnapshot(filename, baseURL) is called.
Parse ==
    /\ parseIn # Nil
    /\ ~parseOut.run
    /\ parseOut' = [run |-> TRUE,
                    snapshot |-> ParseSnapshot(parseIn.filename, parseIn.baseURL)]
    /\ UNCHANGED parseIn

ParseNext ==
    \/ \E f \in ParseNames, b \in BaseURLs :
          ChooseName(f, b) /\ UNCHANGED <<serviceVars, resolveVars, httpVars, networkVars, authVars, pairVars, orderVars>>
    \/ Parse /\ UNCHANGED <<serviceVars, resolveVars, httpVars, networkVars, authVars, pairVars, orderVars>>

SpecParse == InitResolve /\ [][ParseNext]_vars

(***************************************************************************)
(* Two services side by side.  Both are given the same calls, one after the *)
(* other, at the same times, and their buckets answer or fail together; the *)
(* bucket of the second lacks some of the full objects of the first.       *)
(***************************************************************************)
\* Calls made to the pair in one behaviour.
MaxPairCalls == 3

\* The full objects of the listings of the model.
FullNames ==
    {name \in UNION {{l[i] : i \in 1..Len(l)} : l \in Listings} :
        /\ ParseSnapshot(name, "") # Nil
        /\ ParseSnapshot(name, "").Type = SnapshotTypeFull}

\* GetSnapshotsWithAuth run by one caller from start to return, on a service
\* in state st, at time clock, with a bucket that answers with items (ok) or
\* fails: the states with return values the call may leave the service in.
GetSnapshotsWithAuth(st, network, authenticated, items, ok, clock) ==
    LET exists == network \in DOMAIN st.cache
        cacheValid == CacheValid(st.cacheTime, clock)
    IN  IF exists /\ cacheValid
        THEN {[st EXCEPT !.result = ResultFor(st.cache[network], authenticated),
                         !.err = ""]}
        ELSE IF ~ok
        THEN {[st EXCEPT !.result = Nil, !.err = FetchError]}
        ELSE {[cache |-> r, cacheTime |-> clock,
               result |-> IF network \in DOMAIN r
                          THEN ResultFor(r[network], authenticated)
                          ELSE EmptyNetworkSnapshots,
               err |-> ""] :
              r \in NewCache(fetchSnapshots(items), authenticated)}

\* The objects of the bucket of the second service.
WithoutDropped(items) == SelectSeq(items, LAMBDA name : name \notin pair.dropped)

\* The buckets are filled: the first with a listing, the second with the
\* same listing less some full objects.
PairSetup(items, dropped) ==
    /\ pair.bucket = <<>> /\ pair.calls = 0
    /\ pair' = [pair EXCEPT !.bucket = items, !.dropped = dropped]

\* The same call is made to both services.
PairCall(network, authenticated, ok) ==
    /\ pair.bucket # <<>>
    /\ pair.calls < MaxPairCalls
    /\ \E a \in GetSnapshotsWithAuth(pair.st[1], network, authenticated,
                                      pair.bucket, ok, pair.now),
          b \in GetSnapshotsWithAuth(pair.st[2], network, authenticated,
                                      WithoutDropped(pair.bucket), ok, pair.now) :
          pair' = [pair EXCEPT !.st = <<a, b>>, !.calls = @ + 1,
                               !.network = network,
                               !.authenticated = authenticated]

\* Time passes, a TTL at once.
PairTick ==
    /\ pair.bucket # <<>>
    /\ pair.now < ZeroTime + cacheTTL + MaxExpiries * cacheTTL
    /\ pair' = [pair EXCEPT !.now = @ + cacheTTL]

\* Objects are added to or removed from both buckets.
PairBucketChange ==
    /\ pair.bucket # <<>>
    /\ \E l \in Listings \ {pair.bucket} : pair' = [pair EXCEPT !.bucket = l]

PairNext ==
    \/ \E l \in Listings, d \in SUBSET FullNames :
          PairSetup(l, d)
              /\ UNCHANGED <<serviceVars, resolveVars, parseVars, httpVars, networkVars,
                             authVars, orderVars>>
    \/ \E n \in Networks, a \in BOOLEAN, ok \in BOOLEAN :
          PairCall(n, a, ok)
              /\ UNCHANGED <<serviceVars, resolveVars, parseVars, httpVars, networkVars,
                             authVars, orderVars>>
    \/ PairTick
          /\ UNCHANGED <<serviceVars, resolveVars, parseVars, httpVars, networkVars,
                         authVars, orderVars>>
    \/ PairBucketChange
          /\ UNCHANGED <<serviceVars, resolveVars, parseVars, httpVars, networkVars,
                         authVars, orderVars>>

SpecPair == InitResolve /\ [][PairNext]_vars

(***************************************************************************)
(* auth: the middleware on its own.  A request arrives; IsAuthenticated is *)
(* asked about it, and a handler wrapped by RequireAuth serves it.         *)
(***************************************************************************)
\* The values of the Authorization header of the model ("" is no header).
AuthHeaders ==
    {"", "Bearer valid-api-key", "bearer valid-api-key", "BEARER valid-api-key",
     "BeArEr key2", "Bearer key1", "Bearer my key", "Bearer invalid-key",
     "Basic valid-api-key", "Token key1", "InvalidFormat", "valid-api-key",
     "Bearer", "Bearer ", "Bearer  valid-api-key", " Bearer valid-api-key",
     "Bearer valid-api-key ", "Bearerx valid-api-key", "Bear valid-api-key"}

\* The configurations of API_KEYS of the model: none, one key, several keys,
\* and lists with an empty key in them.
AuthKeyConfigs ==
    {<<>>, <<"valid-api-key">>, <<"key1", "key2", "my key">>, <<"">>,
     <<"", "valid-api-key">>}

\* Config.IsValidAPIKey
IsValidAPIKey(apiKey) == IsValidAPIKeyIn(apiKeys, apiKey)

\* Middleware.IsAuthenticated
IsAuthenticated(authHeader) == IsAuthenticatedWith(apiKeys, authHeader)

\* A request arrives with its Authorization header.
AuthReceive(authHeader) ==
    /\ authReq = Nil
    /\ authReq' = [authorization |-> authHeader]
    /\ UNCHANGED authRes

\* m.IsAuthenticated(r) is called.
CheckAuthenticated ==
    /\ authReq # Nil
    /\ ~authRes.checked
    /\ authRes' = [authRes EXCEPT !.checked = TRUE,
                                  !.authenticated = IsAuthenticated(authReq.authorization)]
    /\ UNCHANGED authReq

\* The wrapped handler: it is called and writes its response.
NextHandler(res) ==
    [res EXCEPT !.nextCalls = @ + 1, !.status = 200, !.body = "success"]

\* RequireAuth that answers 401 and calls the wrapped handler all the same.
RequireAuthFallsThrough ==
    /\ authReq # Nil
    /\ ~authRes.served
    /\ authRes' =
          IF ~IsAuthenticated(authReq.authorization)
          THEN NextHandler([authRes EXCEPT !.served = TRUE,
                                           !.contentType = "application/json",
                                           !.wwwAuthenticate = "Bearer"])
          ELSE NextHandler([authRes EXCEPT !.served = TRUE])
    /\ UNCHANGED authReq

\* The handler that RequireAuth(next) returns serves the request: 401 with
\* its two headers and the JSON error body when the request is not
\* authenticated, the wrapped handler otherwise.
RequireAuth ==
    /\ authReq # Nil
    /\ ~authRes.served
    /\ authRes' =
          IF ~IsAuthenticated(authReq.authorization)
          THEN [authRes EXCEPT !.served = TRUE,
                               !.contentType = "application/json",
                               !.wwwAuthenticate = "Bearer",
                               !.status = 401,
                               !.body = "{\"error\": \"unauthorized\", \"message\": \"valid API key required in Authorization header\"}"]
          ELSE NextHandler([authRes EXCEPT !.served = TRUE])
    /\ UNCHANGED authReq

AuthNext ==
    \/ \E h \in AuthHeaders :
          AuthReceive(h)
              /\ UNCHANGED <<serviceVars, resolveVars, parseVars, httpVars, networkVars,
                             pairVars, orderVars>>
    \/ CheckAuthenticated
          /\ UNCHANGED <<serviceVars, resolveVars, parseVars, httpVars, networkVars,
                         pairVars, orderVars>>
    \/ RequireAuth
          /\ UNCHANGED <<serviceVars, resolveVars, parseVars, httpVars, networkVars,
                         pairVars, orderVars>>

InitAuth ==
    /\ ServiceInit
    /\ bucket = ListingA
    /\ ResolveInit
    /\ ParseInit
    /\ HandlerInit
    /\ NetworkInit
    /\ MiddlewareInit
    /\ PairInit
    /\ reads = <<>>
    /\ apiKeys \in AuthKeyConfigs

SpecAuth == InitAuth /\ [][AuthNext]_vars

(***************************************************************************)
(* IsValidNetwork on its own: a caller asks the parser and the service     *)
(* whether a string names a network.                                       *)
(***************************************************************************)
\* The strings of the model: the three networks, their spellings in other
\* cases, with a part missing, with white space or more text around them, the
\* empty string and other words.
NetworkHeads == {"", "main", "test", "dev", "MAIN", "Main", " main", "invalid"}

NetworkTails == {"", "net", "NET", "Net", "net ", "nets", "-net"}

NetworkStrings == {h \o t : h \in NetworkHeads, t \in NetworkTails}

\* A caller picks the string.
ChooseNetwork(network) ==
    /\ validIn = Nil
    /\ validIn' = [network |-> network]
    /\ UNCHANGED validOut

\* parser.IsValidNetwork(network) is called.
ParserIsValid ==
    /\ validIn # Nil
    /\ "parser" \notin validOut.run
    /\ validOut' = [validOut EXCEPT !.run = @ \cup {"parser"},
                                    !.parser = IsValidNetwork(validIn.network)]
    /\ UNCHANGED validIn

\* service.IsValidNetwork(network) is called.
ServiceIsValid ==
    /\ validIn # Nil
    /\ "service" \notin validOut.run
    /\ validOut' = [validOut EXCEPT !.run = @ \cup {"service"},
                                    !.service = ServiceIsValidNetwork(validIn.network)]
    /\ UNCHANGED validIn

NetworkNext ==
    \/ \E n \in NetworkStrings :
          ChooseNetwork(n)
              /\ UNCHANGED <<serviceVars, resolveVars, parseVars, httpVars, authVars, pairVars, orderVars>>
    \/ ParserIsValid /\ UNCHANGED <<serviceVars, resolveVars, parseVars, httpVars, authVars, pairVars, orderVars>>
    \/ ServiceIsValid /\ UNCHANGED <<serviceVars, resolveVars, parseVars, httpVars, authVars, pairVars, orderVars>>

SpecNetwork == InitResolve /\ [][NetworkNext]_vars

Next ==
    \/ \E c \in Callers, n \in RequestNetworks, a \in BOOLEAN :
          Call(c, n, a) /\ UNCHANGED <<resolveVars, parseVars, httpVars, networkVars, authVars, pairVars, orderVars>>
    \/ \E c \in Callers : RLock(c) /\ UNCHANGED <<resolveVars, parseVars, httpVars, networkVars, authVars, pairVars, orderVars>>
    \/ \E c \in Callers : ReadCache(c) /\ UNCHANGED <<resolveVars, parseVars, httpVars, networkVars, authVars, pairVars, orderVars>>
    \/ \E c \in Callers : ServeCached(c) /\ UNCHANGED <<resolveVars, parseVars, httpVars, networkVars, authVars, pairVars, orderVars>>
    \/ \E c \in Callers : FetchStart(c) /\ UNCHANGED <<resolveVars, parseVars, httpVars, networkVars, authVars, pairVars, orderVars>>
    \/ \E c \in Callers : FetchOK(c) /\ UNCHANGED <<resolveVars, parseVars, httpVars, networkVars, authVars, pairVars, orderVars>>
    \/ \E c \in Callers : FetchFail(c) /\ UNCHANGED <<resolveVars, parseVars, httpVars, networkVars, authVars, pairVars, orderVars>>
    \/ \E c \in Callers : Lock(c) /\ UNCHANGED <<resolveVars, parseVars, httpVars, networkVars, authVars, pairVars, orderVars>>
    \/ \E c \in Callers : UpdateCache(c) /\ UNCHANGED <<resolveVars, parseVars, httpVars, networkVars, authVars, pairVars, orderVars>>
    \/ \E c \in Callers : StampAndServe(c) /\ UNCHANGED <<resolveVars, parseVars, httpVars, networkVars, authVars, pairVars, orderVars>>
    \/ \E c \in Callers : Return(c) /\ UNCHANGED <<resolveVars, parseVars, httpVars, networkVars, authVars, pairVars, orderVars>>
    \/ Tick /\ UNCHANGED <<resolveVars, parseVars, httpVars, networkVars, authVars, pairVars, orderVars>>
    \/ BucketChange /\ UNCHANGED <<resolveVars, parseVars, httpVars, networkVars, authVars, pairVars, orderVars>>

Spec == Init /\ [][Next]_vars

(***************************************************************************)
(* The service with the order of the listing reads kept as history.        *)
(***************************************************************************)
\* History: the fetch of call c has read the bucket listing.
RecordRead(c) == reads' = Append(reads, local[c].id)

OrderNext ==
    \/ \E c \in Callers, n \in RequestNetworks, a \in BOOLEAN :
          Call(c, n, a) /\ UNCHANGED <<resolveVars, parseVars, httpVars, networkVars, authVars, pairVars, orderVars>>
    \/ \E c \in Callers : RLock(c) /\ UNCHANGED <<resolveVars, parseVars, httpVars, networkVars, authVars, pairVars, orderVars>>
    \/ \E c \in Callers : ReadCache(c) /\ UNCHANGED <<resolveVars, parseVars, httpVars, networkVars, authVars, pairVars, orderVars>>
    \/ \E c \in Callers : ServeCached(c) /\ UNCHANGED <<resolveVars, parseVars, httpVars, networkVars, authVars, pairVars, orderVars>>
    \/ \E c \in Callers : FetchStart(c) /\ UNCHANGED <<resolveVars, parseVars, httpVars, networkVars, authVars, pairVars, orderVars>>
    \/ \E c \in Callers :
          FetchOK(c) /\ RecordRead(c)
              /\ UNCHANGED <<resolveVars, parseVars, httpVars, networkVars, authVars, pairVars>>
    \/ \E c \in Callers : FetchFail(c) /\ UNCHANGED <<resolveVars, parseVars, httpVars, networkVars, authVars, pairVars, orderVars>>
    \/ \E c \in Callers : Lock(c) /\ UNCHANGED <<resolveVars, parseVars, httpVars, networkVars, authVars, pairVars, orderVars>>
    \/ \E c \in Callers : UpdateCache(c) /\ UNCHANGED <<resolveVars, parseVars, httpVars, networkVars, authVars, pairVars, orderVars>>
    \/ \E c \in Callers : StampAndServe(c) /\ UNCHANGED <<resolveVars, parseVars, httpVars, networkVars, authVars, pairVars, orderVars>>
    \/ \E c \in Callers : Return(c) /\ UNCHANGED <<resolveVars, parseVars, httpVars, networkVars, authVars, pairVars, orderVars>>
    \/ Tick /\ UNCHANGED <<resolveVars, parseVars, httpVars, networkVars, authVars, pairVars, orderVars>>
    \/ BucketChange /\ UNCHANGED <<resolveVars, parseVars, httpVars, networkVars, authVars, pairVars, orderVars>>

SpecOrder == Init /\ [][OrderNext]_vars

\* A step of caller c inside GetSnapshotsWithAuth, from the call to its return
\* values.
CallerStep(c) ==
    /\ \/ RLock(c) \/ ReadCache(c) \/ ServeCached(c) \/ FetchStart(c)
       \/ FetchFail(c) \/ FetchOK(c) \/ Lock(c) \/ UpdateCache(c)
       \/ StampAndServe(c)
    /\ UNCHANGED <<resolveVars, parseVars, httpVars, networkVars, authVars, pairVars, orderVars>>

\* The goroutine of every caller keeps being scheduled, a lock that stays
\* free is granted, and the bucket answers every listing request, with a
\* listing or with a failure.
SpecLive == Init /\ [][Next]_vars /\ \A c \in Callers : WF_vars(CallerStep(c))

(***************************************************************************)
(* The service with callers of GetSnapshots, the form without the flag.    *)
(***************************************************************************)
CompatNext ==
    \/ \E c \in Callers, n \in Networks :
          GetSnapshots(c, n) /\ UNCHANGED <<resolveVars, parseVars, httpVars, networkVars, authVars, pairVars, orderVars>>
    \/ \E c \in Callers : RLock(c) /\ UNCHANGED <<resolveVars, parseVars, httpVars, networkVars, authVars, pairVars, orderVars>>
    \/ \E c \in Callers : ReadCache(c) /\ UNCHANGED <<resolveVars, parseVars, httpVars, networkVars, authVars, pairVars, orderVars>>
    \/ \E c \in Callers : ServeCached(c) /\ UNCHANGED <<resolveVars, parseVars, httpVars, networkVars, authVars, pairVars, orderVars>>
    \/ \E c \in Callers : FetchStart(c) /\ UNCHANGED <<resolveVars, parseVars, httpVars, networkVars, authVars, pairVars, orderVars>>
    \/ \E c \in Callers : FetchOK(c) /\ UNCHANGED <<resolveVars, parseVars, httpVars, networkVars, authVars, pairVars, orderVars>>
    \/ \E c \in Callers : FetchFail(c) /\ UNCHANGED <<resolveVars, parseVars, httpVars, networkVars, authVars, pairVars, orderVars>>
    \/ \E c \in Callers : Lock(c) /\ UNCHANGED <<resolveVars, parseVars, httpVars, networkVars, authVars, pairVars, orderVars>>
    \/ \E c \in Callers : UpdateCache(c) /\ UNCHANGED <<resolveVars, parseVars, httpVars, networkVars, authVars, pairVars, orderVars>>
    \/ \E c \in Callers : StampAndServe(c) /\ UNCHANGED <<resolveVars, parseVars, httpVars, networkVars, authVars, pairVars, orderVars>>
    \/ \E c \in Callers : Return(c) /\ UNCHANGED <<resolveVars, parseVars, httpVars, networkVars, authVars, pairVars, orderVars>>
    \/ Tick /\ UNCHANGED <<resolveVars, parseVars, httpVars, networkVars, authVars, pairVars, orderVars>>
    \/ BucketChange /\ UNCHANGED <<resolveVars, parseVars, httpVars, networkVars, authVars, pairVars, orderVars>>

SpecCompat == Init /\ [][CompatNext]_vars

(***************************************************************************)
(* api: Handler.getSnapshots, the handler of "/"                           *)
(***************************************************************************)
\* The goroutines that serve HTTP requests in the model.
Handlers == {"c1"}

\* The requests of the model.
RequestMethods == {"GET", "POST"}

RequestParams == {"mainnet", "testnet", "invalid", ""}

RequestHeaders ==
    {"", "Bearer valid-api-key", "BEARER valid-api-key", "Bearer invalid-key",
     "InvalidFormat"}

\* The configurations of API_KEYS of the model.
APIKeyConfigs == {<<>>, <<"valid-api-key">>}

\* http.Error(w, message, code)
HTTPError(message, code) ==
    [status |-> code, contentType |-> "text/plain; charset=utf-8",
     cacheControl |-> "", body |-> message \o "\n", entry |-> Nil]

\* json.NewEncoder(w).Encode(snapshots): the fields that are not nil or empty
\* (omitempty), by their JSON names.
EncodeJSON(ns) ==
    LET names == {"full" : x \in {1 : y \in {ns.Full} \ {Nil}}}
                 \cup {"light" : x \in {1 : y \in {ns.Light} \ {Nil}}}
                 \cup {"previous-light" : x \in 1..Len(ns.PreviousLight)}
                 \cup {"previous-full" : x \in 1..Len(ns.PreviousFull)}
    IN  [name \in names |->
            CASE name = "full" -> ns.Full
              [] name = "light" -> ns.Light
              [] name = "previous-light" -> ns.PreviousLight
              [] name = "previous-full" -> ns.PreviousFull]

\* A request arrives and the mux hands it to getSnapshots.
Receive(c, method, network, authHeader) ==
    /\ handler[c] \in {"idle", "responded"}
    /\ request' = [request EXCEPT ![c] = [method |-> method, network |-> network,
                                          authorization |-> authHeader]]
    /\ response' = [response EXCEPT ![c] = NoResponse]
    /\ handler' = [handler EXCEPT ![c] = "validate"]
    /\ UNCHANGED apiKeys

\* if r.Method != http.MethodGet: 405
MethodNotAllowed(c) ==
    /\ handler[c] = "validate"
    /\ request[c].method # "GET"
    /\ response' = [response EXCEPT ![c] = HTTPError("Method not allowed", 405)]
    /\ handler' = [handler EXCEPT ![c] = "responded"]
    /\ UNCHANGED <<apiKeys, request>>

\* if network == "": 400
NetworkRequired(c) ==
    /\ handler[c] = "validate"
    /\ request[c].method = "GET"
    /\ request[c].network = ""
    /\ response' = [response EXCEPT ![c] =
                        HTTPError("network parameter is required", 400)]
    /\ handler' = [handler EXCEPT ![c] = "responded"]
    /\ UNCHANGED <<apiKeys, request>>

\* if !h.snapshotService.IsValidNetwork(network): 400
InvalidNetwork(c) ==
    /\ handler[c] = "validate"
    /\ request[c].method = "GET"
    /\ request[c].network # ""
    /\ ~ServiceIsValidNetwork(request[c].network)
    /\ response' = [response EXCEPT ![c] =
                        HTTPError("invalid network. Supported networks: mainnet, testnet, devnet", 400)]
    /\ handler' = [handler EXCEPT ![c] = "responded"]
    /\ UNCHANGED <<apiKeys, request>>

\* InvokeService without the IsValidNetwork check before it.
InvokeServiceUnvalidated(c) ==
    /\ handler[c] = "validate"
    /\ request[c].method = "GET"
    /\ request[c].network # ""
    /\ GetSnapshots(c, request[c].network)
    /\ handler' = [handler EXCEPT ![c] = "waiting"]
    /\ UNCHANGED <<apiKeys, request, response>>

\* snapshots, err := h.snapshotService.GetSnapshots(models.Network(network)):
\* the call starts.
InvokeService(c) ==
    /\ handler[c] = "validate"
    /\ request[c].method = "GET"
    /\ request[c].network # ""
    /\ ServiceIsValidNetwork(request[c].network)
    /\ GetSnapshots(c, request[c].network)
    /\ handler' = [handler EXCEPT ![c] = "waiting"]
    /\ UNCHANGED <<apiKeys, request, response>>

\* The call returned an error: 500
RespondError(c) ==
    /\ handler[c] = "waiting"
    /\ pc[c] = "done"
    /\ local[c].err # ""
    /\ response' = [response EXCEPT ![c] =
                        HTTPError("failed to fetch snapshots", 500)]
    /\ handler' = [handler EXCEPT ![c] = "responded"]
    /\ Return(c)
    /\ UNCHANGED <<apiKeys, request>>

\* The call returned snapshots: the headers are set and the snapshots encoded,
\* with status 200.
RespondOK(c) ==
    /\ handler[c] = "waiting"
    /\ pc[c] = "done"
    /\ local[c].err = ""
    /\ response' = [response EXCEPT ![c] =
                        [status |-> 200, contentType |-> "application/json",
                         cacheControl |-> "public, max-age=300",
                         body |-> EncodeJSON(local[c].result),
                         entry |-> IF local[c].entry = Nil
                                   THEN EmptyNetworkSnapshots ELSE local[c].entry]]
    /\ handler' = [handler EXCEPT ![c] = "responded"]
    /\ Return(c)
    /\ UNCHANGED <<apiKeys, request>>

HTTPNext ==
    \/ \E c \in Handlers, m \in RequestMethods, n \in RequestParams,
           h \in RequestHeaders :
          Receive(c, m, n, h) /\ UNCHANGED <<serviceVars, resolveVars, parseVars, networkVars, authVars, pairVars, orderVars>>
    \/ \E c \in Handlers :
          MethodNotAllowed(c) /\ UNCHANGED <<serviceVars, resolveVars, parseVars, networkVars, authVars, pairVars, orderVars>>
    \/ \E c \in Handlers :
          NetworkRequired(c) /\ UNCHANGED <<serviceVars, resolveVars, parseVars, networkVars, authVars, pairVars, orderVars>>
    \/ \E c \in Handlers :
          InvalidNetwork(c) /\ UNCHANGED <<serviceVars, resolveVars, parseVars, networkVars, authVars, pairVars, orderVars>>
    \/ \E c \in Handlers : InvokeService(c) /\ UNCHANGED <<resolveVars, parseVars, networkVars, authVars, pairVars, orderVars>>
    \/ \E c \in Handlers : RLock(c) /\ UNCHANGED <<resolveVars, parseVars, httpVars, networkVars, authVars, pairVars, orderVars>>
    \/ \E c \in Handlers : ReadCache(c) /\ UNCHANGED <<resolveVars, parseVars, httpVars, networkVars, authVars, pairVars, orderVars>>
    \/ \E c \in Handlers : ServeCached(c) /\ UNCHANGED <<resolveVars, parseVars, httpVars, networkVars, authVars, pairVars, orderVars>>
    \/ \E c \in Handlers : FetchStart(c) /\ UNCHANGED <<resolveVars, parseVars, httpVars, networkVars, authVars, pairVars, orderVars>>
    \/ \E c \in Handlers : FetchOK(c) /\ UNCHANGED <<resolveVars, parseVars, httpVars, networkVars, authVars, pairVars, orderVars>>
    \/ \E c \in Handlers : FetchFail(c) /\ UNCHANGED <<resolveVars, parseVars, httpVars, networkVars, authVars, pairVars, orderVars>>
    \/ \E c \in Handlers : Lock(c) /\ UNCHANGED <<resolveVars, parseVars, httpVars, networkVars, authVars, pairVars, orderVars>>
    \/ \E c \in Handlers : UpdateCache(c) /\ UNCHANGED <<resolveVars, parseVars, httpVars, networkVars, authVars, pairVars, orderVars>>
    \/ \E c \in Handlers : StampAndServe(c) /\ UNCHANGED <<resolveVars, parseVars, httpVars, networkVars, authVars, pairVars, orderVars>>
    \/ \E c \in Handlers : RespondError(c) /\ UNCHANGED <<resolveVars, parseVars, networkVars, authVars, pairVars, orderVars>>
    \/ \E c \in Handlers : RespondOK(c) /\ UNCHANGED <<resolveVars, parseVars, networkVars, authVars, pairVars, orderVars>>
    \/ Tick /\ UNCHANGED <<resolveVars, parseVars, httpVars, networkVars, authVars, pairVars, orderVars>>
    \/ BucketChange /\ UNCHANGED <<resolveVars, parseVars, httpVars, networkVars, authVars, pairVars, orderVars>>

InitHTTP ==
    /\ ServiceInit
    /\ bucket \in Listings
    /\ ResolveInit
    /\ ParseInit
    /\ HandlerInit
    /\ NetworkInit
    /\ MiddlewareInit
    /\ PairInit
    /\ reads = <<>>
    /\ apiKeys \in APIKeyConfigs

SpecHTTP == InitHTTP /\ [][HTTPNext]_vars

(***************************************************************************)
(* Properties of GetSnapshotsWithAuth, under Spec                          *)
(***************************************************************************)
\* The cache entry a finished call was served from, as a NetworkSnapshots.
ServedEntry(c) ==
    IF local[c].entry = Nil THEN EmptyNetworkSnapshots ELSE local[c].entry

Succeeded(c) == pc[c] = "done" /\ local[c].err = ""

\* The call was answered from the cache, without a fetch.
ServedFromCache(c) == Succeeded(c) /\ local[c].exists /\ local[c].cacheValid

InRefresh(c) == pc[c] \in {"fetching", "lock", "update", "stamp"}

\* C1: a call that succeeds returns, to an authenticated caller, the cache
\* entry it was served from unchanged and, to an unauthenticated caller, a set
\* with Full and PreviousFull absent and Light and PreviousLight equal to those
\* of that entry, on the cached path and on the refresh path alike.
C1_Redaction ==
    \A c \in Callers :
        Succeeded(c) =>
            IF local[c].authenticated
            THEN local[c].result = ServedEntry(c)
            ELSE /\ local[c].result.Full = Nil
                 /\ local[c].result.PreviousFull = <<>>
                 /\ local[c].result.Light = ServedEntry(c).Light
                 /\ local[c].result.PreviousLight = ServedEntry(c).PreviousLight

\* An unauthenticated call is served from a fresh cache entry that has a full
\* snapshot, a light one and previous light ones; another one is served by
\* its own refresh.
C1_Witness ==
    \E c \in Callers :
        /\ ServedFromCache(c)
        /\ ~local[c].authenticated
        /\ local[c].entry.Full # Nil
        /\ local[c].entry.Light # Nil
        /\ local[c].entry.PreviousLight # <<>>

\* C2: the cache is always an unfiltered outcome of resolving the snapshots
\* last stored, and an authenticated call that succeeds gets the unfiltered
\* entry of the snapshots its cache was resolved from, whoever refreshed it.
C2_CacheUnfiltered ==
    /\ cache \in processSnapshots(stored)
    /\ \A c \in Callers :
          Succeeded(c) /\ local[c].authenticated =>
              \E r \in processSnapshots(local[c].src) :
                  local[c].result =
                      IF local[c].network \in DOMAIN r
                      THEN r[local[c].network] ELSE EmptyNetworkSnapshots

\* An authenticated call is served, from the cache, Full and PreviousFull of a
\* cache that the refresh of an unauthenticated call wrote.
C2_Witness ==
    \E c \in Callers :
        /\ ServedFromCache(c)
        /\ local[c].authenticated
        /\ origin.cache # 0 /\ origin.cache # local[c].id
        /\ ~origin.authenticated
        /\ local[c].result.Full # Nil
        /\ local[c].result.PreviousFull # <<>>

\* C3: a call that found the cache within its TTL never invokes the Fetcher;
\* it returns the held entry, or an empty set when the cache has no entry for
\* the network.
C3_FreshNeverFetches ==
    \A c \in Callers :
        local[c].cacheValid =>
            /\ ~InRefresh(c)
            /\ pc[c] = "done" =>
                  /\ local[c].err = ""
                  /\ local[c].result =
                        ResultFor(IF local[c].exists THEN local[c].cached
                                  ELSE EmptyNetworkSnapshots,
                                  local[c].authenticated)

\* C4: at most one refresh is in flight, and the fetch of a refresh runs with
\* the exclusive lock held.
C4_OneRefreshInFlight ==
    /\ Cardinality({c \in Callers : InRefresh(c)}) <= 1
    /\ \A c \in Callers : pc[c] = "fetching" => mutex.writer = c

\* C5: a caller that found the cache empty or stale does not issue a fetch
\* once another caller's refresh has made the cache fresh with an entry for
\* its network.
C5_NoDuplicateFetch ==
    [][\A c \in Callers :
          (pc[c] = "check" /\ pc'[c] = "fetching" /\ ~local[c].cacheValid)
              => ~(CacheValid(cacheTime, now) /\ local[c].network \in DOMAIN cache)]_vars

\* C6: a call whose fetch fails returns the error and no result, and no step
\* of the call up to and including that return changes the cache entries or
\* the cache timestamp.
C6_FetchFailureLeavesCache ==
    [][\A c \in Callers :
          /\ (pc[c] = "fetching" /\ pc'[c] = "done") =>
                /\ local'[c].err # ""
                /\ local'[c].result = Nil
                /\ cache' = cache /\ cacheTime' = cacheTime
          /\ (pc[c] \in {"idle", "rlock", "read", "check"} /\ pc'[c] # pc[c]) =>
                cache' = cache /\ cacheTime' = cacheTime]_vars

\* A fetch has failed for a caller while the cache holds the entries of an
\* earlier refresh.
C6_Witness ==
    \E c \in Callers :
        /\ pc[c] = "done" /\ local[c].err # ""
        /\ DOMAIN cache # {}
        /\ cacheTime # ZeroTime

\* C7: whenever a caller holds the read lock, the entries and the timestamp of
\* the cache were written by the same refresh, no refresh is writing, and the
\* entries of all networks are one outcome of resolving one fetched listing.
C7_AtomicReplace ==
    \A c \in Callers :
        pc[c] = "read" =>
            /\ origin.cache = origin.cacheTime
            /\ mutex.writer = NoCaller
            /\ cache \in processSnapshots(stored)

\* A caller holds the read lock on a cache that a refresh filled with the
\* entries of two networks.
C7_Witness ==
    \E c \in Callers :
        /\ pc[c] = "read"
        /\ origin.cache # 0
        /\ Cardinality(DOMAIN cache) >= 2

(***************************************************************************)
(* Properties of the resolution, under SpecResolve                         *)
(***************************************************************************)
SnapshotTypes == {SnapshotTypeFull, SnapshotTypeLight}

\* The latest field and the previous list of a (network, kind) in the output.
LatestOf(n, t) ==
    IF n \notin DOMAIN output.result THEN Nil
    ELSE IF t = SnapshotTypeFull THEN output.result[n].Full
         ELSE output.result[n].Light

PreviousOf(n, t) ==
    IF n \notin DOMAIN output.result THEN <<>>
    ELSE IF t = SnapshotTypeFull THEN output.result[n].PreviousFull
         ELSE output.result[n].PreviousLight

Elements(s) == {s[i] : i \in 1..Len(s)}

Occurrences(s, x) == Cardinality({i \in 1..Len(s) : s[i] = x})

\* t is not earlier than u.
NotEarlier(t, u) == t.date > u.date \/ (t.date = u.date /\ t.clock >= u.clock)

\* a comes no later than b in the order block descending, timestamp descending.
NotBelow(a, b) ==
    a.Block > b.Block \/ (a.Block = b.Block /\ NotEarlier(a.Timestamp, b.Timestamp))

\* C8: the latest of a non-empty group is the summary of a descriptor of the
\* group that has the maximum block and, among the descriptors of that block,
\* the most recent timestamp; the latest of an empty group is absent.
C8_LatestIsMaximum ==
    output.run =>
        \A n \in Networks, t \in SnapshotTypes :
            LET g == GroupOf(input, n, t)
            IN  IF Len(g) = 0 THEN LatestOf(n, t) = Nil
                ELSE \E d \in Elements(g) :
                        /\ LatestOf(n, t) = ToSnapshotInfo(d)
                        /\ \A e \in Elements(g) : d.Block >= e.Block
                        /\ \A e \in Elements(g) :
                              e.Block = d.Block => NotEarlier(d.Timestamp, e.Timestamp)

\* A group was resolved in which two descriptors share the maximum block with
\* different timestamps, and a descriptor of a lower block is newer than both.
C8_Witness ==
    /\ output.run
    /\ \E n \in Networks, t \in SnapshotTypes :
          \E d, e, f \in Elements(GroupOf(input, n, t)) :
              /\ \A x \in Elements(GroupOf(input, n, t)) : d.Block >= x.Block
              /\ e.Block = d.Block /\ e.Timestamp # d.Timestamp
              /\ f.Block < d.Block
              /\ ~NotEarlier(d.Timestamp, f.Timestamp)
              /\ ~NotEarlier(e.Timestamp, f.Timestamp)

\* C9: previous has min(3, count-1) elements (none for a group of 0 or 1), and
\* latest followed by previous is the start of the group sorted by block
\* descending then timestamp descending: it is made of summaries of
\* descriptors of the group, each taken no more often than the group has it,
\* in that order, and no descriptor left out comes before the last one taken.
C9_PreviousIsNextThree ==
    output.run =>
        \A n \in Networks, t \in SnapshotTypes :
            LET g == GroupOf(input, n, t)
                infos == [i \in 1..Len(g) |-> ToSnapshotInfo(g[i])]
                previous == PreviousOf(n, t)
                top == IF Len(g) = 0 THEN <<>> ELSE <<LatestOf(n, t)>> \o previous
                descOf(x) == CHOOSE d \in Elements(g) : ToSnapshotInfo(d) = x
            IN  /\ Len(previous) = IF Len(g) <= 1 THEN 0
                                   ELSE IF Len(g) - 1 < 3 THEN Len(g) - 1 ELSE 3
                /\ \A i \in 1..Len(top) : top[i] \in Elements(infos)
                /\ \A x \in Elements(top) : Occurrences(top, x) <= Occurrences(infos, x)
                /\ \A i, j \in 1..Len(top) :
                      i < j => NotBelow(descOf(top[i]), descOf(top[j]))
                /\ \A d \in Elements(g) :
                      Occurrences(top, ToSnapshotInfo(d)) < Occurrences(infos, ToSnapshotInfo(d))
                          => NotBelow(descOf(top[Len(top)]), d)

\* A group of at least five descriptors was resolved: previous holds three of
\* its four non-latest descriptors.
C9_Witness ==
    /\ output.run
    /\ \E n \in Networks, t \in SnapshotTypes :
          /\ Len(GroupOf(input, n, t)) >= 5
          /\ Len(PreviousOf(n, t)) = 3

DistinctNames ==
    \A i, j \in 1..Len(input) : i # j => input[i].Filename # input[j].Filename

SameWindow(c, d) ==
    /\ c # d
    /\ pc[c] = "done" /\ pc[d] = "done"
    /\ local[c].network = local[d].network
    /\ local[c].authenticated = local[d].authenticated
    /\ local[c].id < local[d].id
    /\ ~local[c].changed /\ ~local[d].changed
    /\ local[c].err = ""
    /\ local[d].cacheValid

\* C11: two calls with the same network and the same authenticated flag, made
\* within one TTL window with no change of the bucket listing in between,
\* return identical results, whatever other calls are interleaved.
C11_Idempotent ==
    \A c, d \in Callers :
        SameWindow(c, d) =>
            /\ local[d].err = local[c].err
            /\ local[d].result = local[c].result

\* The names of a listing that ParseSnapshot accepts, in listing order.
Parseable(items) ==
    SelectSeq(items, LAMBDA name : ParseSnapshot(name, "") # Nil)

\* C14: a listing with unparseable names does not make a refresh fail: the
\* fetch returns exactly the snapshots of the parseable names, in listing
\* order, the cache is resolved from those alone, and the call returns a
\* result and no error.
C14_UnparseableSkipped ==
    [][\A c \in Callers :
          /\ (pc[c] = "fetching" /\ pc'[c] = "lock") =>
                LET names == Parseable(bucket)
                    snapshots == local'[c].snapshots
                IN  /\ local'[c].err = ""
                    /\ Len(snapshots) = Len(names)
                    /\ \A i \in 1..Len(names) :
                          /\ snapshots[i].Filename = names[i]
                          /\ snapshots[i] =
                                ParseSnapshot(names[i],
                                    "https://storage.googleapis.com/" \o bucketName)
          /\ (pc[c] = "update" /\ pc'[c] = "stamp") =>
                \E l \in Listings :
                    cache' \in processSnapshots(fetchSnapshots(Parseable(l)))
          /\ (pc[c] = "stamp" /\ pc'[c] = "done") =>
                /\ local'[c].err = ""
                /\ local'[c].result # Nil]_vars

\* A call has refreshed the cache from a listing of three names with an
\* unparseable one in the middle, and returned the two others as the latest
\* and the previous full snapshot.
C14_Witness ==
    \E c \in Callers :
        /\ Succeeded(c) /\ local[c].fetches = 1
        /\ Len(local[c].snapshots) = 2
        /\ local[c].snapshots[1].Filename = ListingA[1]
        /\ local[c].snapshots[2].Filename = ListingA[3]
        /\ ParseSnapshot(ListingA[2], "") = Nil
        /\ local[c].result.Full # Nil
        /\ Len(local[c].result.PreviousFull) = 1

\* The state of the cache: EMPTY until the first refresh has stamped it, then
\* FRESH while its age is below the TTL and STALE otherwise.
CacheState ==
    IF cacheTime = ZeroTime THEN "EMPTY"
    ELSE IF CacheValid(cacheTime, now) THEN "FRESH" ELSE "STALE"

\* The step completes a refresh: a call whose fetch succeeded stamps the cache
\* and returns without an error.
RefreshCompletes ==
    \E c \in Callers :
        pc[c] = "stamp" /\ pc'[c] = "done" /\ local'[c].err = ""

\* C17: the cache only moves EMPTY -> FRESH -> STALE -> FRESH; it becomes
\* FRESH, or is stamped again, only through a successful refresh, becomes
\* STALE only by the clock passing the TTL, never returns to EMPTY, and a
\* failed refresh leaves the state, the stamp and the entries as they were.
C17_CacheStateMachine ==
    [][/\ CacheState' # CacheState =>
             <<CacheState, CacheState'>> \in
                 {<<"EMPTY", "FRESH">>, <<"FRESH", "STALE">>, <<"STALE", "FRESH">>}
       /\ (CacheState' = "FRESH" /\ (CacheState # "FRESH" \/ cacheTime' # cacheTime))
             => RefreshCompletes
       /\ (CacheState = "FRESH" /\ CacheState' = "STALE") =>
             /\ now' - cacheTime >= cacheTTL /\ now - cacheTime < cacheTTL
             /\ cacheTime' = cacheTime /\ cache' = cache
       /\ \A c \in Callers :
             (pc[c] = "fetching" /\ pc'[c] = "done") =>
                 /\ CacheState' = CacheState
                 /\ cacheTime' = cacheTime /\ cache' = cache]_vars

\* The cache is FRESH by its second refresh, after the TTL of the first one
\* had elapsed.
C17_Witness ==
    /\ CacheState = "FRESH"
    /\ origin.cacheTime = 2
    /\ cacheTime = ZeroTime + 2 * cacheTTL

\* C18: one call invokes the Fetcher at most once; a call whose fetch failed
\* has fetched exactly once and returns the error and no result, and a call
\* that goes on to refresh the cache has fetched exactly once.
C18_AtMostOneFetch ==
    \A c \in Callers :
        /\ local[c].fetches <= 1
        /\ (pc[c] = "done" /\ local[c].err # "") =>
              local[c].fetches = 1 /\ local[c].result = Nil
        /\ pc[c] \in {"fetching", "lock", "update", "stamp"} => local[c].fetches = 1

\* A call has returned the error of its one fetch, and the next fetch is that
\* of a later call.
C18_Witness ==
    \E c, d \in Callers :
        /\ pc[c] = "done" /\ local[c].err # "" /\ local[c].fetches = 1
        /\ pc[d] = "fetching" /\ local[d].id > local[c].id

\* No fetch has succeeded so far: the cache was never written and no caller
\* holds fetched snapshots.
NoFetchSucceeded ==
    /\ origin.cache = 0
    /\ \A c \in Callers : pc[c] \notin {"lock", "update", "stamp"}

\* C19: from the empty cache, as long as no fetch has succeeded the cache
\* stays EMPTY and every call that returns, whatever its network and flag,
\* returns an error and no result; a call whose fetch succeeded returns a
\* result and no error and leaves the cache FRESH.
C19_FailsUntilFirstFetch ==
    [][/\ NoFetchSucceeded' => (CacheState' = "EMPTY" /\ cache' = <<>>)
       /\ \A c \in Callers :
             (pc[c] # "done" /\ pc'[c] = "done") =>
                 /\ NoFetchSucceeded' =>
                       local'[c].err # "" /\ local'[c].result = Nil
                 /\ pc[c] = "stamp" =>
                       /\ local'[c].err = "" /\ local'[c].result # Nil
                       /\ CacheState' = "FRESH"]_vars

\* The first call has failed on the empty cache and the second one, of
\* another network and flag, has returned the result of its successful fetch.
C19_Witness ==
    \E c, d \in Callers :
        /\ pc[c] = "done" /\ local[c].id = 1 /\ local[c].err # ""
        /\ pc[d] = "done" /\ local[d].id = 2 /\ local[d].err = ""
        /\ local[d].network # local[c].network
        /\ local[d].authenticated # local[c].authenticated
        /\ origin.cache = 2
        /\ CacheState = "FRESH"

(***************************************************************************)
(* Further properties of the resolution, under SpecResolve                 *)
(***************************************************************************)
\* C12: the output has an entry for a network exactly when the input holds a
\* descriptor of that network (none at all for an empty input), and in the
\* entry of a network a kind without descriptors has no latest and an empty
\* previous list.
C12_PresentNetworks ==
    output.run =>
        /\ DOMAIN output.result = {input[i].Network : i \in 1..Len(input)}
        /\ input = <<>> => output.result = <<>>
        /\ \A n \in DOMAIN output.result, t \in SnapshotTypes :
              GroupOf(input, n, t) = <<>> =>
                  /\ LatestOf(n, t) = Nil
                  /\ PreviousOf(n, t) = <<>>

\* An input of two networks was resolved, one of them with descriptors of one
\* kind only, and the third network has no entry.
C12_Witness ==
    /\ output.run
    /\ Cardinality(DOMAIN output.result) = 2
    /\ \E n \in DOMAIN output.result :
          /\ GroupOf(input, n, SnapshotTypeFull) = <<>>
          /\ output.result[n].Light # Nil
          /\ output.result[n].Full = Nil

(***************************************************************************)
(* Properties of the parser, under SpecParse                               *)
(***************************************************************************)
\* The fields of a timestamp segment of the form 8 digits, '-', 6 digits name
\* a day of the calendar and a time of the day.
ValidStamp(t) ==
    LET year == Atoi(SubSeq(t, 1, 4))
        month == Atoi(SubSeq(t, 5, 6))
        day == Atoi(SubSeq(t, 7, 8))
        days == <<31, IF (year % 4 = 0 /\ year % 100 # 0) \/ year % 400 = 0
                      THEN 29 ELSE 28,
                  31, 30, 31, 30, 31, 31, 30, 31, 30, 31>>
    IN  /\ month \in 1..12
        /\ day \in 1..days[month]
        /\ Atoi(SubSeq(t, 10, 11)) \in 0..23
        /\ Atoi(SubSeq(t, 12, 13)) \in 0..59
        /\ Atoi(SubSeq(t, 14, 15)) \in 0..59

\* The ways to read a name as
\*   <network>-<kind>-db-block-<digits>-<8digits>-<6digits>.tar.gz
\* with a valid timestamp: the network, the kind, the digits and the timestamp.
Readings(name) ==
    LET head(n, k) == n \o "-" \o k \o "-db-block-"
        digits(n, k, b) == SubSeq(name, Len(head(n, k)) + 1, Len(head(n, k)) + b)
        stamp(n, k, b) ==
            SubSeq(name, Len(head(n, k)) + b + 2, Len(head(n, k)) + b + 16)
        fits == {x \in {"mainnet", "testnet", "devnet"} \X {"full", "light"}
                          \X (1..Len(name)) :
                    /\ Len(name) = Len(head(x[1], x[2])) + x[3] + 1 + 15 + 7
                    /\ name = head(x[1], x[2]) \o digits(x[1], x[2], x[3]) \o "-"
                                \o stamp(x[1], x[2], x[3]) \o ".tar.gz"
                    /\ AllDigits(digits(x[1], x[2], x[3]))
                    /\ AllDigits(SubSeq(stamp(x[1], x[2], x[3]), 1, 8))
                    /\ CharAt(stamp(x[1], x[2], x[3]), 9) = "-"
                    /\ AllDigits(SubSeq(stamp(x[1], x[2], x[3]), 10, 15))
                    /\ ValidStamp(stamp(x[1], x[2], x[3]))}
    IN  {[network |-> x[1], kind |-> x[2],
          digits |-> digits(x[1], x[2], x[3]),
          stamp |-> stamp(x[1], x[2], x[3])] : x \in fits}

\* C13: ParseSnapshot accepts a name exactly when it has the form
\* <network>-<kind>-db-block-<digits>-<8digits>-<6digits>.tar.gz with a network
\* of mainnet, testnet, devnet, a kind of full, light and a timestamp that is
\* a valid date and time; every other name gives an error and no snapshot,
\* and an accepted name gives the network, kind, block and timestamp in it.
C13_AcceptsExactlyGrammar ==
    parseOut.run =>
        LET snapshot == parseOut.snapshot
            readings == Readings(parseIn.filename)
        IN  /\ snapshot # Nil <=> readings # {}
            /\ snapshot # Nil =>
                  \A r \in readings :
                      /\ snapshot.Network = r.network
                      /\ snapshot.Type = r.kind
                      /\ snapshot.Block = Atoi(r.digits)
                      /\ snapshot.Timestamp =
                            [date |-> Atoi(SubSeq(r.stamp, 1, 8)),
                             clock |-> Atoi(SubSeq(r.stamp, 10, 15))]

\* C15: for every accepted name and every base URL, the URL of the snapshot is
\* the base without one trailing "/o", if it has one, followed by "/" and the
\* raw name, so that it ends with "/" and exactly the raw name, and Filename
\* is the raw name.
C15_URLEndsWithName ==
    (parseOut.run /\ parseOut.snapshot # Nil) =>
        LET name == parseIn.filename
            base == parseIn.baseURL
            url == parseOut.snapshot.URL
            endsInO == /\ Len(base) >= 2
                       /\ CharAt(base, Len(base) - 1) = "/"
                       /\ CharAt(base, Len(base)) = "o"
            kept == IF endsInO THEN Len(base) - 2 ELSE Len(base)
        IN  /\ Len(url) = kept + 1 + Len(name)
            /\ SubSeq(url, 1, kept) = SubSeq(base, 1, kept)
            /\ CharAt(url, kept + 1) = "/"
            /\ SubSeq(url, kept + 2, Len(url)) = name
            /\ parseOut.snapshot.Filename = name

\* A name was accepted with a base URL that ends in "/o/o": one "/o" is left
\* in the URL.
C15_Witness ==
    /\ parseOut.run /\ parseOut.snapshot # Nil
    /\ parseIn.baseURL = "https://example.com/o/o"
    /\ parseOut.snapshot.URL = "https://example.com/o/" \o parseIn.filename

(***************************************************************************)
(* Properties of GetSnapshots, under SpecCompat                            *)
(***************************************************************************)
\* A step of the service in which every call that starts is a call of
\* GetSnapshotsWithAuth(network, true).
AuthenticatedStep ==
    \/ \E c \in Callers, n \in Networks : Call(c, n, TRUE)
    \/ \E c \in Callers :
          \/ RLock(c) \/ ReadCache(c) \/ ServeCached(c) \/ FetchStart(c)
          \/ FetchOK(c) \/ FetchFail(c) \/ Lock(c) \/ UpdateCache(c)
          \/ StampAndServe(c) \/ Return(c)
    \/ Tick
    \/ BucketChange

\* C20: GetSnapshots(network) is GetSnapshotsWithAuth(network, true): in every
\* state of the cache and for every network, each step of a GetSnapshots call
\* is a step of that call, with the same effect on the cache and the same
\* result or error, and a result it returns is the unfiltered entry.
C20_GetSnapshotsIsAuthenticated ==
    [][/\ AuthenticatedStep
       /\ \A c \in Callers :
             (pc'[c] = "done" /\ local'[c].err = "") =>
                 local'[c].result =
                     IF local'[c].entry = Nil THEN EmptyNetworkSnapshots
                     ELSE local'[c].entry]_vars

\* One GetSnapshots call has returned the entry of its refresh with the full
\* snapshots in it, and a later one the error of its failed fetch on the
\* stale cache.
C20_Witness ==
    \E c, d \in Callers :
        /\ pc[c] = "done" /\ local[c].err = "" /\ local[c].fetches = 1
        /\ local[c].result.Full # Nil
        /\ local[c].result.PreviousFull # <<>>
        /\ pc[d] = "done" /\ local[d].err # "" /\ local[d].id > local[c].id
        /\ CacheState = "STALE"

(***************************************************************************)
(* Properties of the handler, under SpecHTTP                               *)
(***************************************************************************)
\* C16: a GET request with a valid network is never rejected for its
\* credentials.  Unless the service call failed, the response is 200; without
\* an Authorization header, or with a malformed or invalid one, it has no
\* "full" and no "previous-full" and has the light fields of the entry served;
\* with a valid API key it has the full fields of the entry as well.
C16_UnauthenticatedGetsLightOnly ==
    \A c \in Handlers :
        (/\ handler[c] = "responded"
         /\ request[c].method = "GET"
         /\ IsValidNetwork(request[c].network)) =>
            LET body == response[c].body
                entry == response[c].entry
                light == EncodeJSON([entry EXCEPT !.Full = Nil, !.PreviousFull = <<>>])
            IN  /\ response[c].status \in {200, 500}
                /\ response[c].status = 200 =>
                      IF IsAuthenticated(request[c].authorization)
                      THEN body = EncodeJSON(entry)
                      ELSE /\ "full" \notin DOMAIN body
                           /\ "previous-full" \notin DOMAIN body
                           /\ body = light

\* C21: the handler validates before it calls the service.  A request that is
\* not a GET is answered 405, a GET without a network or with a network that
\* IsValidNetwork rejects is answered 400, and in these cases no call of the
\* service starts; a valid GET starts one call, and when that call returns an
\* error the answer is 500 with the error message and no snapshots as body.
C21_ValidatesBeforeService ==
    [][\A c \in Handlers :
          /\ (handler[c] = "validate" /\ handler'[c] # "validate") =>
                IF request[c].method # "GET"
                THEN /\ handler'[c] = "responded"
                     /\ response'[c].status = 405
                     /\ calls' = calls /\ pc' = pc /\ local' = local
                ELSE IF request[c].network = "" \/ ~IsValidNetwork(request[c].network)
                THEN /\ handler'[c] = "responded"
                     /\ response'[c].status = 400
                     /\ calls' = calls /\ pc' = pc /\ local' = local
                ELSE /\ handler'[c] = "waiting"
                     /\ calls' = calls + 1
                     /\ pc'[c] = "rlock"
                     /\ local'[c].network = request[c].network
          /\ (handler[c] = "waiting" /\ handler'[c] = "responded"
                  /\ local[c].err # "") =>
                /\ response'[c].status = 500
                /\ response'[c].body = "failed to fetch snapshots\n"
                /\ response'[c].entry = Nil]_vars

\* A valid GET was answered 500 after its service call failed, after an
\* earlier call had filled the cache.
C21_Witness ==
    \E c \in Handlers :
        /\ handler[c] = "responded"
        /\ request[c].method = "GET" /\ IsValidNetwork(request[c].network)
        /\ response[c].status = 500
        /\ response[c].body = "failed to fetch snapshots\n"
        /\ DOMAIN cache # {}
        /\ calls = 2

\* A request with a network that is not valid was answered 400 with the
\* service never called.
C21_Rejected ==
    \E c \in Handlers :
        /\ handler[c] = "responded"
        /\ request[c].method = "GET" /\ request[c].network = "invalid"
        /\ response[c].status = 400
        /\ calls = 0

(***************************************************************************)
(* Properties of IsValidNetwork, under SpecNetwork                         *)
(***************************************************************************)
\* C22: IsValidNetwork is true exactly for "mainnet", "testnet" and "devnet",
\* compared case-sensitively, and the service's IsValidNetwork returns on
\* every string what the parser's returns.
C22_ExactlyThreeNetworks ==
    /\ "parser" \in validOut.run =>
          (validOut.parser <=> validIn.network \in {"mainnet", "testnet", "devnet"})
    /\ "service" \in validOut.run =>
          (validOut.service <=> validIn.network \in {"mainnet", "testnet", "devnet"})
    /\ validOut.run = {"parser", "service"} =>
          validOut.parser = validOut.service

\* Both methods have rejected "MAINNET".
C22_Witness ==
    /\ validIn # Nil /\ validIn.network = "MAINNET"
    /\ validOut = [run |-> {"parser", "service"}, parser |-> FALSE, service |-> FALSE]

\* Both methods have accepted "devnet".
C22_Accepted ==
    /\ validIn # Nil /\ validIn.network = "devnet"
    /\ validOut = [run |-> {"parser", "service"}, parser |-> TRUE, service |-> TRUE]

(***************************************************************************)
(* Properties of the middleware, under SpecAuth                            *)
(***************************************************************************)
\* The header is a spelling of "bearer" in upper and lower case letters, one
\* space, and a non-empty key that is one of the configured keys.
BearerWithConfiguredKey(keys, authHeader) ==
    /\ Len(authHeader) >= 8
    /\ \A i \in 1..6 :
          CharAt(authHeader, i) \in {CharAt("bearer", i), CharAt("BEARER", i)}
    /\ CharAt(authHeader, 7) = " "
    /\ \E k \in 1..Len(keys) : keys[k] = SubSeq(authHeader, 8, Len(authHeader))

\* C23: IsAuthenticated is true exactly when the Authorization header is
\* "<scheme> <key>" with the scheme "bearer" in any case and a non-empty key
\* equal to a configured key; without configured keys, without a header, with
\* another scheme or with an empty key it is false.
C23_AuthenticatedExactlyBearerKey ==
    authRes.checked =>
        /\ authRes.authenticated <=>
              BearerWithConfiguredKey(apiKeys, authReq.authorization)
        /\ (\/ apiKeys = <<>>
            \/ authReq.authorization = ""
            \/ authReq.authorization \in {"Bearer", "Bearer ", "bearer "}
            \/ ~HasPrefix(ToLower(authReq.authorization), "bearer "))
              => ~authRes.authenticated

\* IsAuthenticated has accepted a header whose scheme is written in mixed
\* case, for the second of three configured keys.
C23_Witness ==
    /\ authReq # Nil /\ authReq.authorization = "BeArEr key2"
    /\ apiKeys = <<"key1", "key2", "my key">>
    /\ authRes.checked /\ authRes.authenticated

\* IsAuthenticated has rejected "Bearer " where the empty key is configured.
C23_EmptyKeyRejected ==
    /\ authReq # Nil /\ authReq.authorization = "Bearer "
    /\ apiKeys = <<"">>
    /\ authRes.checked /\ ~authRes.authenticated

\* C24: the handler wrapped by RequireAuth is called, once, exactly when the
\* request is authenticated; for a request that is not, it is never called
\* and the response is 401 with WWW-Authenticate: Bearer and Content-Type
\* application/json.
C24_RequireAuthGuards ==
    /\ ~authRes.served => authRes.nextCalls = 0
    /\ authRes.served =>
          IF IsAuthenticated(authReq.authorization)
          THEN authRes.nextCalls = 1
          ELSE /\ authRes.nextCalls = 0
               /\ authRes.status = 401
               /\ authRes.wwwAuthenticate = "Bearer"
               /\ authRes.contentType = "application/json"

\* A request with an invalid key was answered 401 without a call of the
\* wrapped handler.
C24_Witness ==
    /\ authReq # Nil /\ authReq.authorization = "Bearer invalid-key"
    /\ apiKeys = <<"valid-api-key">>
    /\ authRes.served
    /\ authRes.status = 401 /\ authRes.nextCalls = 0

\* A request with a valid key was served by the wrapped handler.
C24_Passed ==
    /\ authReq # Nil /\ authReq.authorization = "Bearer valid-api-key"
    /\ authRes.served
    /\ authRes.status = 200 /\ authRes.nextCalls = 1

(***************************************************************************)
(* Properties of concurrent refreshes, under SpecOrder                     *)
(***************************************************************************)
\* The call has refreshed the cache and has its result.
Refreshed(c) == Succeeded(c) /\ local[c].fetches = 1

\* The fetch of call c read the bucket listing before that of call d did.
ReadBefore(c, d) ==
    \E i, j \in 1..Len(reads) :
        i < j /\ reads[i] = local[c].id /\ reads[j] = local[d].id

\* C25: when two refreshes have both completed and no other call has written
\* the cache, the cache holds the snapshots of the one that read the bucket
\* listing later, whichever of them took the exclusive lock first.
C25_NoRegression ==
    \A c, d \in Callers :
        (/\ Refreshed(c) /\ Refreshed(d)
         /\ ReadBefore(c, d)
         /\ origin.cache \in {local[c].id, local[d].id}) =>
            /\ stored = local[d].snapshots
            /\ cache \in processSnapshots(local[d].snapshots)

(***************************************************************************)
(* Properties of the ordering, under SpecResolve                           *)
(***************************************************************************)
\* The orders in which a listing may deliver n objects.
DeliveryOrders(n) ==
    {p \in [1..n -> 1..n] : \A i, j \in 1..n : i # j => p[i] # p[j]}

\* C26: the order (block descending, timestamp descending) is total on
\* distinct descriptors: for an input of descriptors with distinct names, the
\* latest and previous of every group are the same for every order in which
\* the descriptors are delivered, and the same for every run of the sort.
C26_OrderIndependent ==
    (output.run /\ DistinctNames) =>
        \A p \in DeliveryOrders(Len(input)) :
            processSnapshots([i \in 1..Len(input) |-> input[p[i]]]) = {output.result}

(***************************************************************************)
(* Where a result comes from, under Spec                                   *)
(***************************************************************************)
\* C27: a call returns a result without an error in two ways only: from the
\* entry it read under the read lock at a moment when the age of the cache
\* was below the TTL, without a fetch, or from the cache it has itself just
\* resolved from the snapshots of its own successful fetch.  A call whose
\* fetch fails returns the error and no result, whatever the cache holds.
C27_FreshOrOwnFetch ==
    [][\A c \in Callers :
          /\ (pc[c] = "read" /\ pc'[c] = "check") =>
                /\ local'[c].cacheValid <=> (now - cacheTime < cacheTTL)
                /\ local'[c].exists <=> (local[c].network \in DOMAIN cache)
                /\ local'[c].exists => local'[c].cached = cache[local[c].network]
          /\ (pc[c] # "done" /\ pc'[c] = "done" /\ local'[c].err = "") =>
                \/ /\ pc[c] = "check"
                   /\ local[c].exists /\ local[c].cacheValid
                   /\ local'[c].fetches = 0
                   /\ local'[c].result =
                         ResultFor(local[c].cached, local[c].authenticated)
                \/ /\ pc[c] = "stamp"
                   /\ local'[c].fetches = 1
                   /\ mutex.writer = c
                   /\ cache \in processSnapshots(local[c].snapshots)
                   /\ local'[c].result =
                         IF local[c].network \in DOMAIN cache
                         THEN ResultFor(cache[local[c].network], local[c].authenticated)
                         ELSE EmptyNetworkSnapshots
          /\ (pc[c] = "fetching" /\ pc'[c] = "done") =>
                /\ local'[c].err # ""
                /\ local'[c].result = Nil]_vars

\* A call that found an entry for its network in the stale cache has returned
\* the error of its failed fetch, with the entry still in the cache.
C27_Witness ==
    \E c \in Callers :
        /\ pc[c] = "done" /\ local[c].err # "" /\ local[c].result = Nil
        /\ local[c].exists /\ ~local[c].cacheValid
        /\ local[c].network \in DOMAIN cache
        /\ CacheState = "STALE"

(***************************************************************************)
(* Properties of two services side by side, under SpecPair                 *)
(***************************************************************************)
\* C28: the result of an unauthenticated call does not depend on the full
\* snapshots in the bucket: of two services that are given the same calls and
\* whose buckets differ in full objects only, both return the same result, or
\* both an error, to every unauthenticated call.
C28_UnauthenticatedIgnoresFull ==
    (pair.calls > 0 /\ ~pair.authenticated) =>
        /\ pair.st[1].err = pair.st[2].err
        /\ pair.st[1].result = pair.st[2].result

(***************************************************************************)
(* Termination of GetSnapshotsWithAuth, under SpecLive                     *)
(***************************************************************************)
\* A caller holds the read lock only while it reads the cache, and the write
\* lock only from Lock to its return.
LocksReleased ==
    \A c \in Callers :
        /\ c \in mutex.readers => pc[c] = "read"
        /\ mutex.writer = c => pc[c] \in {"update", "stamp"}

\* Whenever a call is in flight, some call in flight can take a step.
NoDeadlock ==
    (\E c \in Callers : pc[c] \notin {"idle", "done"}) =>
        \E c \in Callers : ENABLED CallerStep(c)

\* C29: with concurrent callers and a bucket that always answers, no deadlock
\* is reachable and every call returns: the read lock is released before the
\* fetch and before the write lock is requested, the write lock is released
\* on return, and a call that has started eventually has its return values.
C29_EveryCallReturns ==
    /\ [](LocksReleased /\ NoDeadlock)
    /\ \A c \in Callers : (pc[c] = "rlock") ~> (pc[c] = "done")

\* One caller waits for the write lock that the other holds while it updates
\* the cache.
C29_Witness ==
    \E c, d \in Callers :
        /\ pc[c] = "lock" /\ pc[d] = "update"
        /\ mutex.writer = d
        /\ ~ENABLED CallerStep(c)

(***************************************************************************)
(* The block number, under SpecParse                                       *)
(***************************************************************************)
MaxUint64Digits == "18446744073709551615"

\* The digits denote a value between 0 and 2^64-1.
InUint64Range(digits) ==
    LET d == StripZeros(digits)
    IN  \/ Len(d) < Len(MaxUint64Digits)
        \/ Len(d) = Len(MaxUint64Digits) /\ ~DigitsGreater(d, MaxUint64Digits)

\* C30: the block is an unsigned 64-bit integer: every name of the grammar
\* with a valid timestamp whose digits denote a value between 0 and 2^64-1 is
\* accepted, and the block of its snapshot is that value, leading zeros
\* ignored, and not negative.
C30_BlockIsUint64 ==
    parseOut.run =>
        \A r \in Readings(parseIn.filename) :
            InUint64Range(r.digits) =>
                /\ parseOut.snapshot # Nil
                /\ parseOut.snapshot.Block >= 0
                /\ parseOut.snapshot.Block = Atoi(StripZeros(r.digits))

====
